---- MODULE Spec2Model ----
(***************************************************************************)
(* Model of the interview progression state machine of the FastAPI backend *)
(* (backend/app/routes/interview.py) together with the three helpers of    *)
(* backend/app/services/llm_service.py it calls.                           *)
(*                                                                         *)
(* Python values that come out of json.loads or live in a JSON column are  *)
(* tagged records (JNull, JBool, JInt, JStr, JDict, JList); a dict keeps   *)
(* its insertion order as a sequence of <<key, value>> pairs.  Texts are   *)
(* strings; lower(), strip() and the `in` substring test are computed      *)
(* character by character.                                                 *)
(*                                                                         *)
(* db.commit() is taken to store the session object as the handler left    *)
(* it; a request that raises before its commit stores nothing.  SpecOrm    *)
(* is the exception: there the commit writes what the ORM tracks for the   *)
(* columns models.py declares.                                             *)
(*                                                                         *)
(* Specifications: Spec, SpecBackendDown and SpecVerdicts serve the        *)
(* interview requests of one session against three backends (sample        *)
(* answers, a backend that is down, judge payloads of any content);        *)
(* SpecUnit invokes the helpers of llm_service.py and get_session_status   *)
(* on their own; SpecAdmin serves several sessions next to the             *)
(* administrator's update and delete requests; SpecOrm is SpecAdmin with   *)
(* the commit of the ORM; SpecTemplates serves the template requests;      *)
(* SpecOverlap lets a chat request load the row of a session while another *)
(* chat request on that session has not committed yet.                     *)
(***************************************************************************)
EXTENDS Integers, Sequences, FiniteSets, TLC

VARIABLES
    templates,  \* table interview_templates: id -> row (ids are 1..Len)
    sessions,   \* table interview_sessions: id -> row (ids are 1..Len)
    call,       \* the last request served: its branch, its HTTP reply and
                \* the helper invocations it made, in order
    openrouter, \* the text-generation backend of this run: the outcomes its
                \* requests may have, per helper that asks it
    unit,       \* a helper of llm_service.py invoked on its own, as the unit
                \* tests do: its arguments and, once it returned, its result
    started,    \* history variable, session id -> the questions_schema its
                \* template had when start_interview created the session
                \* (the program keeps no such copy)
    inflight    \* chat requests that have loaded their session row and not
                \* yet committed: the row each one works on and its outcome

vars == <<templates, sessions, call, openrouter, unit, started, inflight>>

(***************************************************************************)
(* Bounds of the model.                                                    *)
(***************************************************************************)
\* A chat request is explored only while the stored conversation, with the
\* two turns the request appends, stays within MaxTurns turns.
MaxTurns == 8

(***************************************************************************)
(* JSON / Python values.                                                   *)
(***************************************************************************)
JNull == [t |-> "null"]
JBool(b) == [t |-> "bool", b |-> b]
JInt(n) == [t |-> "int", n |-> n]
JStr(s) == [t |-> "str", s |-> s]
JDict(items) == [t |-> "dict", items |-> items]
JList(items) == [t |-> "list", items |-> items]

EmptyDict == JDict(<<>>)

IsDict(v) == v.t = "dict"

\* Python truthiness, as used by `if value:` and `x or {}`.
Truthy(v) ==
    CASE v.t = "null" -> FALSE
      [] v.t = "bool" -> v.b
      [] v.t = "int" -> v.n /= 0
      [] v.t = "str" -> v.s /= ""
      [] v.t = "dict" -> v.items /= <<>>
      [] v.t = "list" -> v.items /= <<>>

HasKey(d, k) == \E i \in 1..Len(d.items) : d.items[i][1] = k

\* dict.get(k, default)
DictGet(d, k, default) ==
    IF HasKey(d, k)
    THEN d.items[CHOOSE i \in 1..Len(d.items) : d.items[i][1] = k][2]
    ELSE default

\* str(value) inside an f-string, for the scalar values the backend payloads
\* of this model carry.
PyStr(v) ==
    CASE v.t = "null" -> "None"
      [] v.t = "bool" -> (IF v.b THEN "True" ELSE "False")
      [] v.t = "int" -> ToString(v.n)
      [] v.t = "str" -> v.s

(***************************************************************************)
(* Text helpers: str.lower(), str.strip(), `phrase in text`.               *)
(***************************************************************************)
LowerChar(c) ==
    CASE c = "A" -> "a" [] c = "B" -> "b" [] c = "C" -> "c" [] c = "D" -> "d"
      [] c = "E" -> "e" [] c = "F" -> "f" [] c = "G" -> "g" [] c = "H" -> "h"
      [] c = "I" -> "i" [] c = "J" -> "j" [] c = "K" -> "k" [] c = "L" -> "l"
      [] c = "M" -> "m" [] c = "N" -> "n" [] c = "O" -> "o" [] c = "P" -> "p"
      [] c = "Q" -> "q" [] c = "R" -> "r" [] c = "S" -> "s" [] c = "T" -> "t"
      [] c = "U" -> "u" [] c = "V" -> "v" [] c = "W" -> "w" [] c = "X" -> "x"
      [] c = "Y" -> "y" [] c = "Z" -> "z" [] OTHER -> c

UpperChar(c) ==
    CASE c = "a" -> "A" [] c = "b" -> "B" [] c = "c" -> "C" [] c = "d" -> "D"
      [] c = "e" -> "E" [] c = "f" -> "F" [] c = "g" -> "G" [] c = "h" -> "H"
      [] c = "i" -> "I" [] c = "j" -> "J" [] c = "k" -> "K" [] c = "l" -> "L"
      [] c = "m" -> "M" [] c = "n" -> "N" [] c = "o" -> "O" [] c = "p" -> "P"
      [] c = "q" -> "Q" [] c = "r" -> "R" [] c = "s" -> "S" [] c = "t" -> "T"
      [] c = "u" -> "U" [] c = "v" -> "V" [] c = "w" -> "W" [] c = "x" -> "X"
      [] c = "y" -> "Y" [] c = "z" -> "Z" [] OTHER -> c

IsAlpha(c) == LowerChar(c) /= c \/ UpperChar(c) /= c

CharAt(s, i) == SubSeq(s, i, i)

RECURSIVE Lower(_)
Lower(s) ==
    IF Len(s) = 0 THEN ""
    ELSE LowerChar(CharAt(s, 1)) \o Lower(SubSeq(s, 2, Len(s)))

IsSpace(c) == c \in {" ", "\t", "\n", "\r"}

RECURSIVE LStrip(_)
LStrip(s) ==
    IF Len(s) > 0 /\ IsSpace(CharAt(s, 1)) THEN LStrip(SubSeq(s, 2, Len(s)))
    ELSE s

RECURSIVE RStrip(_)
RStrip(s) ==
    IF Len(s) > 0 /\ IsSpace(CharAt(s, Len(s)))
    THEN RStrip(SubSeq(s, 1, Len(s) - 1))
    ELSE s

Strip(s) == RStrip(LStrip(s))

\* `phrase in text` on Python strings: substring containment.
Contains(phrase, text) ==
    \E i \in 0..(Len(text) - Len(phrase)) :
        SubSeq(text, i + 1, i + Len(phrase)) = phrase

\* Mutant: a phrase matches only when it is the whole trimmed message.
AnyPhraseIs(phrases, message) ==
    \E p \in phrases : p = Strip(Lower(message))

\* any(phrase in message.lower().strip() for phrase in phrases)
AnyPhraseIn(phrases, message) ==
    \E p \in phrases : Contains(p, Strip(Lower(message)))

\* str.replace('_', ' ')
RECURSIVE ReplaceUnderscore(_)
ReplaceUnderscore(s) ==
    IF Len(s) = 0 THEN ""
    ELSE (IF CharAt(s, 1) = "_" THEN " " ELSE CharAt(s, 1))
         \o ReplaceUnderscore(SubSeq(s, 2, Len(s)))

\* str.title(): a letter that follows a non-letter is upper-cased, every
\* other letter is lower-cased.
RECURSIVE TitleFrom(_, _)
TitleFrom(s, prevAlpha) ==
    IF Len(s) = 0 THEN ""
    ELSE LET c == CharAt(s, 1)
         IN (IF prevAlpha THEN LowerChar(c) ELSE UpperChar(c))
            \o TitleFrom(SubSeq(s, 2, Len(s)), IsAlpha(c))

Title(s) == TitleFrom(s, FALSE)

(***************************************************************************)
(* Field schemas and the outcomes of one request to the text backend.      *)
(***************************************************************************)
\* questions_schema of the template the sessions are started from: an
\* ordered mapping field name -> {prompt, type}.
SampleSchema ==
    << [name |-> "name", prompt |-> "What is your name?", type |-> "string"],
       [name |-> "key_details",
        prompt |-> "What are the most important details?", type |-> "story"] >>

\* One requests.post of a helper ends in an exception (transport error,
\* non-2xx status, missing choices, content that json.loads rejects), in a
\* parsed JSON value, or (question generator) in the content text.
BackendFail == [kind |-> "fail"]
BackendJson(v) == [kind |-> "json", value |-> v]
BackendText(s) == [kind |-> "text", text |-> s]

\* What the backend may answer to the Extractor.
ExtractorBackend ==
    { BackendFail,
      BackendJson(JDict(<< <<"name", JStr("John Smith")>>,
                           <<"key_details", JNull>> >>)),
      BackendJson(JDict(<< <<"name", JStr("John Smith")>>,
                           <<"key_details", JStr("5 years")>> >>)),
      BackendJson(JList(<<>>)) }

\* What the backend may answer to the Completeness Judge.
JudgeBackend ==
    { BackendFail,
      BackendJson(JDict(<< <<"field_scores",
                             JDict(<< <<"name", JInt(9)>>,
                                      <<"key_details", JInt(8)>> >>)>>,
                           <<"overall_complete", JBool(TRUE)>>,
                           <<"suggestions", JStr("")>> >>)),
      BackendJson(JDict(<< <<"field_scores",
                             JDict(<< <<"name", JInt(9)>>,
                                      <<"key_details", JInt(2)>> >>)>>,
                           <<"overall_complete", JBool(FALSE)>>,
                           <<"suggestions", JStr("Ask for details.")>> >>)) }

\* What the backend may answer to the Question Generator.
GeneratorBackend ==
    { BackendFail, BackendText(" What are the key details? ") }

\* The backend the interview requests are explored with.
SampleBackend ==
    [extractor |-> ExtractorBackend, judge |-> JudgeBackend,
     generator |-> GeneratorBackend]

\* The texts a user sends.
Messages == { "Yes, that's right!", "norway", "incorrect", "hmm" }

(***************************************************************************)
(* llm_service.py: the three helpers of the chat handler.  Each returns    *)
(* [raised |-> TRUE] when an exception leaves the helper, and its value    *)
(* otherwise.                                                              *)
(***************************************************************************)
Raised == [raised |-> TRUE]

\* Mutant: the payload is normalised to the schema, a missing field becomes
\* null and a key outside the schema is dropped.
ExtractNormalised(conversation_history, questions_schema, backend) ==
    IF backend.kind = "json" /\ IsDict(backend.value)
    THEN [raised |-> FALSE,
          value |-> JDict([i \in 1..Len(questions_schema) |->
                             <<questions_schema[i].name,
                               DictGet(backend.value,
                                       questions_schema[i].name, JNull)>>])]
    ELSE [raised |-> FALSE, value |-> EmptyDict]

\* extract_data_from_conversation: the parsed payload as it is, {} on any
\* failure of the backend call.
extract_data_from_conversation(conversation_history, questions_schema, backend) ==
    IF backend.kind = "json"
    THEN [raised |-> FALSE, value |-> backend.value]
    ELSE [raised |-> FALSE, value |-> EmptyDict]

JudgeFallbackSuggestion ==
    "Unable to evaluate completeness. Please continue the conversation."

\* Mutant: the except branch declares the interview complete.
JudgeFallbackComplete(extracted_data, questions_schema) ==
    [raised |-> FALSE,
     field_scores |->
        JDict([i \in 1..Len(questions_schema) |->
                 <<questions_schema[i].name, JInt(5)>>]),
     overall_complete |-> JBool(TRUE),
     suggestions |-> JStr(JudgeFallbackSuggestion)]

\* The except branch of judge_completeness.
JudgeFallback(extracted_data, questions_schema) ==
    [raised |-> FALSE,
     field_scores |->
        JDict([i \in 1..Len(questions_schema) |->
                 <<questions_schema[i].name,
                   JInt(IF Truthy(DictGet(extracted_data,
                                          questions_schema[i].name, JNull))
                        THEN 5 ELSE 0)>>]),
     overall_complete |-> JBool(FALSE),
     suggestions |-> JStr(JudgeFallbackSuggestion)]

\* judge_completeness: extracted_data.items() is evaluated before the try
\* block, judgment.get(...) inside it.
judge_completeness(extracted_data, questions_schema, backend) ==
    IF ~IsDict(extracted_data) THEN Raised
    ELSE IF backend.kind = "json" /\ IsDict(backend.value)
    THEN [raised |-> FALSE,
          field_scores |-> DictGet(backend.value, "field_scores", EmptyDict),
          overall_complete |->
              DictGet(backend.value, "overall_complete", JBool(FALSE)),
          suggestions |-> DictGet(backend.value, "suggestions", JStr(""))]
    ELSE JudgeFallback(extracted_data, questions_schema)

\* conversation_history[-6:]
ContextTurns == 6

\* Mutant: the first turns of the conversation are kept instead of the last.
FirstTurns(conversation_history) ==
    IF Len(conversation_history) <= ContextTurns THEN conversation_history
    ELSE SubSeq(conversation_history, 1, ContextTurns)

LastTurns(conversation_history) ==
    IF Len(conversation_history) <= ContextTurns THEN conversation_history
    ELSE SubSeq(conversation_history,
                Len(conversation_history) - ContextTurns + 1,
                Len(conversation_history))

GeneratorFallback == "Could you tell me more about your experience?"

\* "\n".join([f"{msg['sender']}: {msg['text']}" for msg in turns])
RECURSIVE ConversationText(_)
ConversationText(turns) ==
    IF turns = <<>> THEN ""
    ELSE turns[1].sender \o ": " \o turns[1].text
         \o (IF Len(turns) > 1 THEN "\n" ELSE "")
         \o ConversationText(Tail(turns))

\* generate_next_question: field_scores.get(...) is evaluated per schema
\* field before the try block.  `prompt` is the "Recent conversation" part
\* of the prompt sent to the backend.
generate_next_question(conversation_history, questions_schema, extracted_data, field_scores, suggestions, backend) ==
    IF Len(questions_schema) > 0 /\ ~IsDict(field_scores) THEN Raised
    ELSE [raised |-> FALSE,
          prompt |-> ConversationText(LastTurns(conversation_history)),
          value |-> IF backend.kind = "text" THEN Strip(backend.text)
                    ELSE GeneratorFallback]

\* str.startswith
StartsWith(s, prefix) ==
    Len(s) >= Len(prefix) /\ SubSeq(s, 1, Len(prefix)) = prefix

\* s.split(":", 1)[1] for a text that holds a colon
RECURSIVE AfterFirstColon(_)
AfterFirstColon(s) ==
    IF CharAt(s, 1) = ":" THEN SubSeq(s, 2, Len(s))
    ELSE AfterFirstColon(SubSeq(s, 2, Len(s)))

YesNoReason == "Please answer with 'yes' or 'no'."

MoreDetailReason == "Please provide a more detailed response."

\* len(answer.strip()) < 10
MinAnswerLen == 10

\* _fallback_evaluation: the pair (sufficient, reason).
fallback_evaluation(answer, field_type) ==
    IF field_type = "yes/no"
    THEN [sufficient |-> Lower(answer) \in {"yes", "no"},
          reason |-> JStr(YesNoReason)]
    ELSE IF Len(Strip(answer)) < MinAnswerLen
    THEN [sufficient |-> FALSE, reason |-> JStr(MoreDetailReason)]
    ELSE [sufficient |-> TRUE, reason |-> JNull]

\* evaluate_response: the verdict is read off the start of the content; any
\* failure of the backend call falls back to _fallback_evaluation.
evaluate_response(question, answer, field_type, backend) ==
    IF backend.kind = "text"
    THEN LET result == Strip(backend.text)
         IN IF StartsWith(result, "SUFFICIENT")
            THEN [sufficient |-> TRUE, reason |-> JNull]
            ELSE IF StartsWith(result, "INSUFFICIENT")
            THEN [sufficient |-> FALSE,
                  reason |-> JStr(IF Contains(":", result)
                                  THEN Strip(AfterFirstColon(result))
                                  ELSE "Please provide more detail.")]
            ELSE [sufficient |-> TRUE, reason |-> JNull]
    ELSE fallback_evaluation(answer, field_type)

(***************************************************************************)
(* models.py: the session row and the reply of the chat endpoint.          *)
(***************************************************************************)
Turn(sender, text) == [sender |-> sender, text |-> text]

\* The row start_interview inserts.
NewSession(template_id) ==
    [template_id |-> template_id,
     session_data |-> EmptyDict,
     conversation_history |-> <<>>,
     current_question_index |-> 0,
     is_completed |-> FALSE,
     awaiting_confirmation |-> FALSE,
     extracted_data |-> EmptyDict,
     field_scores |-> EmptyDict]

\* ChatResponse(...): fields that are not passed keep their defaults.
ChatResponse(response, is_complete, awaiting_confirmation, extracted_data, field_scores, session_data) ==
    [response |-> response,
     is_complete |-> is_complete,
     awaiting_confirmation |-> awaiting_confirmation,
     extracted_data |-> extracted_data,
     field_scores |-> field_scores,
     session_data |-> session_data]

\* Optional[Dict[str, Any]]: pydantic accepts a dict or None.
OptionalDict(v) == v.t \in {"dict", "null"}

ValidChatResponse(body) ==
    /\ OptionalDict(body.extracted_data)
    /\ OptionalDict(body.field_scores)
    /\ OptionalDict(body.session_data)

\* The body of a request that ends in an exception (HTTP 500).
NoBody == ChatResponse("", FALSE, FALSE, JNull, JNull, JNull)

(***************************************************************************)
(* routes/interview.py, chat_with_session.  Every branch yields the        *)
(* session object as the handler leaves it, whether db.commit() ran, the   *)
(* HTTP status, the reply and the helper invocations made.                 *)
(***************************************************************************)
\* return ChatResponse(...): the reply is validated when it is constructed,
\* after the branch's db.commit().
Returned(session, branch, llm, body) ==
    [session |-> session, committed |-> TRUE, branch |-> branch, llm |-> llm,
     status |-> IF ValidChatResponse(body) THEN 200 ELSE 500,
     body |-> IF ValidChatResponse(body) THEN body ELSE NoBody]

\* Mutant: the session is committed on the way out even when a helper
\* raised.
AbortedAfterWrite(session, branch, llm) ==
    [session |-> session, committed |-> TRUE, branch |-> branch, llm |-> llm,
     status |-> 500, body |-> NoBody]

\* A helper raised: the exception leaves the handler before any commit.
Aborted(session, branch, llm) ==
    [session |-> session, committed |-> FALSE, branch |-> branch, llm |-> llm,
     status |-> 500, body |-> NoBody]

AlreadyCompletedMsg == "This interview has already been completed."

\* Mutant: the completed short-circuit clears the pending flag and commits.
TerminalBranchResets(session) ==
    [session |-> [session EXCEPT !.awaiting_confirmation = FALSE],
     committed |-> TRUE, branch |-> "terminal", llm |-> <<>>, status |-> 200,
     body |-> ChatResponse(AlreadyCompletedMsg, TRUE, FALSE, JNull, JNull,
                           session.session_data)]

\* Mutant: the completed short-circuit reopens the interview.
TerminalBranchReopens(session) ==
    [session |-> [session EXCEPT !.is_completed = FALSE],
     committed |-> TRUE, branch |-> "terminal", llm |-> <<>>, status |-> 200,
     body |-> ChatResponse(AlreadyCompletedMsg, TRUE, FALSE, JNull, JNull,
                           session.session_data)]

\* if session.is_completed: answer without touching the session.
TerminalBranch(session) ==
    [session |-> session, committed |-> FALSE, branch |-> "terminal",
     llm |-> <<>>, status |-> 200,
     body |-> ChatResponse(AlreadyCompletedMsg, TRUE, FALSE, JNull, JNull,
                           session.session_data)]

\* Mutant: the user's turn also moves the interview to the next question.
AppendUserAdvances(session, message) ==
    [session EXCEPT !.conversation_history = Append(@, Turn("user", message)),
                    !.current_question_index = @ + 1]

\* session.conversation_history.append({"sender": "user", ...}); the column
\* is never None in a row start_interview inserted.
AppendUser(session, message) ==
    [session EXCEPT !.conversation_history = Append(@, Turn("user", message))]

\* Mutant: the assistant turn replaces the last turn instead of following it.
AppendAssistantOverwrites(session, text) ==
    [session EXCEPT
        !.conversation_history =
            [@ EXCEPT ![Len(@)] = Turn("assistant", text)]]

AppendAssistant(session, text) ==
    [session EXCEPT !.conversation_history = Append(@, Turn("assistant", text))]

ConfirmPhrases ==
    {"yes", "correct", "looks good", "that's right", "confirm", "approve"}

RejectPhrases ==
    {"no", "incorrect", "wrong", "not right", "reject", "change"}

ReadyPhrases ==
    {"ready", "ok", "yes", "start", "lets start", "let's start",
     "ok. lets start", "begin"}

IsConfirm(message) == AnyPhraseIn(ConfirmPhrases, message)

IsReject(message) == AnyPhraseIn(RejectPhrases, message)

IsReady(message) == AnyPhraseIn(ReadyPhrases, message)

ConfirmationAck ==
    "Perfect! Thank you for confirming. Your interview is now complete."

\* Mutant: the snapshot is dropped at confirmation.
ExtractedDropped(extracted_data) == EmptyDict

\* session.extracted_data or {}
ExtractedOrEmpty(extracted_data) ==
    IF Truthy(extracted_data) THEN extracted_data ELSE EmptyDict

\* Mutant: the confirm branch forgets to set is_completed.
ConfirmBranchNoFlag(session) ==
    LET done == [session EXCEPT
                    !.session_data = ExtractedOrEmpty(session.extracted_data)]
    IN Returned(AppendAssistant(done, ConfirmationAck), "confirm", <<>>,
                ChatResponse(ConfirmationAck, TRUE, FALSE, JNull, JNull,
                             done.session_data))

\* The user confirmed: complete the interview.
ConfirmBranch(session) ==
    LET done == [session EXCEPT
                    !.is_completed = TRUE,
                    !.session_data = ExtractedOrEmpty(session.extracted_data)]
    IN Returned(AppendAssistant(done, ConfirmationAck), "confirm", <<>>,
                ChatResponse(ConfirmationAck, TRUE, FALSE, JNull, JNull,
                             done.session_data))

ContinueMsg ==
    "I understand. Let's continue our conversation to gather more accurate information. What would you like to clarify or add?"

\* Mutant: the reject branch leaves awaiting_confirmation set.
RejectBranchKeepsFlag(session) ==
    Returned(AppendAssistant(session, ContinueMsg), "reject", <<>>,
             ChatResponse(ContinueMsg, FALSE, FALSE, JNull, JNull, JNull))

\* The user wants changes: continue the interview.
RejectBranch(session) ==
    LET back == [session EXCEPT !.awaiting_confirmation = FALSE]
    IN Returned(AppendAssistant(back, ContinueMsg), "reject", <<>>,
                ChatResponse(ContinueMsg, FALSE, FALSE, JNull, JNull, JNull))

OpeningMsg ==
    "Great! I'll be conducting this interview with you. Let's have a natural conversation, and I'll gather the information we need. Tell me, what brings you here today?"

WelcomeMsg ==
    "Hello! Welcome to your interview session. I will ask you questions through a natural conversation. Let me know when you're ready to begin!"

\* Mutant: the first-interaction test ignores the turn just appended.
IsEmptyHistory(conversation_history) == Len(conversation_history) = 0

\* if len(session.conversation_history) == 1
IsFirstInteraction(conversation_history) == Len(conversation_history) = 1

\* The very first interaction: welcome, no extraction.
BootstrapBranch(session, message) ==
    LET welcome_msg == IF IsReady(message) THEN OpeningMsg ELSE WelcomeMsg
    IN Returned(AppendAssistant(session, welcome_msg), "bootstrap", <<>>,
                ChatResponse(welcome_msg, FALSE, FALSE, JNull, JNull, JNull))

SummaryIntro ==
    "Thank you for sharing all that information! Let me summarize what I've gathered:\n\n"

SummaryOutro ==
    "\nDoes this look accurate? Please confirm if this is correct, or let me know what needs to be changed."

\* One line of the summary per item whose value is truthy; the bullet
\* character U+2022 of the source is written "-" here.
RECURSIVE SummaryLines(_)
SummaryLines(items) ==
    IF items = <<>> THEN ""
    ELSE (IF Truthy(items[1][2])
          THEN "- **" \o Title(ReplaceUnderscore(items[1][1])) \o "**: "
               \o PyStr(items[1][2]) \o "\n"
          ELSE "")
         \o SummaryLines(Tail(items))

ConfirmationMsg(extracted_data) ==
    SummaryIntro \o SummaryLines(extracted_data.items) \o SummaryOutro

\* Mutant: the Extractor is handed the whole history.
FullHistory(conversation_history) == conversation_history

\* session.conversation_history[:-1]: the history handed to the Extractor.
ExtractionInput(conversation_history) ==
    SubSeq(conversation_history, 1, Len(conversation_history) - 1)

\* The helper invocations a request makes, each with what it was given and
\* what it returned.
ExtractCall(conversation_history, questions_schema, returned) ==
    [fn |-> "extract_data_from_conversation",
     conversation_history |-> conversation_history,
     questions_schema |-> questions_schema,
     returned |-> returned]

JudgeCall(extracted_data, questions_schema, returned) ==
    [fn |-> "judge_completeness", extracted_data |-> extracted_data,
     questions_schema |-> questions_schema,
     returned |-> returned]

GenerateCall(conversation_history, questions_schema, extracted_data, field_scores, suggestions, returned) ==
    [fn |-> "generate_next_question",
     conversation_history |-> conversation_history,
     questions_schema |-> questions_schema,
     context |-> LastTurns(conversation_history),
     extracted_data |-> extracted_data,
     field_scores |-> field_scores,
     suggestions |-> suggestions,
     returned |-> returned]

\* Mutant: the summary shown for confirmation is already stored as the
\* result of the interview.
ConfirmationRequestSnapshots(session, extracted_data, field_scores, llm) ==
    LET confirmation_msg == ConfirmationMsg(extracted_data)
        asked == [session EXCEPT !.awaiting_confirmation = TRUE,
                                 !.session_data = extracted_data]
    IN Returned(AppendAssistant(asked, confirmation_msg),
                "confirmation_request", llm,
                ChatResponse(confirmation_msg, FALSE, TRUE, extracted_data,
                             field_scores, JNull))

\* Mutant: the interview is closed as soon as the summary is shown.
ConfirmationRequestCompletes(session, extracted_data, field_scores, llm) ==
    LET confirmation_msg == ConfirmationMsg(extracted_data)
        asked == [session EXCEPT !.awaiting_confirmation = TRUE,
                                 !.is_completed = TRUE]
    IN Returned(AppendAssistant(asked, confirmation_msg),
                "confirmation_request", llm,
                ChatResponse(confirmation_msg, FALSE, TRUE, extracted_data,
                             field_scores, JNull))

\* if overall_complete: ask the user to confirm the summary.
ConfirmationRequest(session, extracted_data, field_scores, llm) ==
    LET confirmation_msg == ConfirmationMsg(extracted_data)
        asked == [session EXCEPT !.awaiting_confirmation = TRUE]
    IN Returned(AppendAssistant(asked, confirmation_msg),
                "confirmation_request", llm,
                ChatResponse(confirmation_msg, FALSE, TRUE, extracted_data,
                             field_scores, JNull))

\* Mutant: asking a further question withdraws the pending confirmation.
NextQuestionWithdraws(session, questions_schema, extracted_data, field_scores, suggestions, llm, ge) ==
    LET g == generate_next_question(session.conversation_history,
                                    questions_schema, extracted_data,
                                    field_scores, suggestions, ge)
        calls == Append(llm, GenerateCall(session.conversation_history,
                                          questions_schema, extracted_data,
                                          field_scores, suggestions, g))
        back == [session EXCEPT !.awaiting_confirmation = FALSE]
    IN IF g.raised THEN Aborted(session, "next_question", calls)
       ELSE Returned(AppendAssistant(back, g.value), "next_question", calls,
                     ChatResponse(g.value, FALSE, FALSE, extracted_data,
                                  field_scores, JNull))

\* else: generate the next question.
NextQuestion(session, questions_schema, extracted_data, field_scores, suggestions, llm, ge) ==
    LET g == generate_next_question(session.conversation_history,
                                    questions_schema, extracted_data,
                                    field_scores, suggestions, ge)
        calls == Append(llm, GenerateCall(session.conversation_history,
                                          questions_schema, extracted_data,
                                          field_scores, suggestions, g))
    IN IF g.raised THEN Aborted(session, "next_question", calls)
       ELSE Returned(AppendAssistant(session, g.value), "next_question", calls,
                     ChatResponse(g.value, FALSE, FALSE, extracted_data,
                                  field_scores, JNull))

\* Mutant: the verdict is cross-checked against the scores; confirmation is
\* asked for only if every returned score is at least 7.
ExtractionOutcomeCrossChecked(session, questions_schema, ex, ju, ge) ==
    LET history == ExtractionInput(session.conversation_history)
        e == extract_data_from_conversation(history, questions_schema, ex)
        j == judge_completeness(e.value, questions_schema, ju)
        calls == <<ExtractCall(history, questions_schema, e),
                   JudgeCall(e.value, questions_schema, j)>>
    IN IF j.raised THEN Aborted(session, "extraction", calls)
       ELSE LET stored == [session EXCEPT !.extracted_data = e.value,
                                          !.field_scores = j.field_scores]
                agreed ==
                    /\ IsDict(j.field_scores)
                    /\ \A i \in 1..Len(j.field_scores.items) :
                          /\ j.field_scores.items[i][2].t = "int"
                          /\ j.field_scores.items[i][2].n >= 7
            IN IF Truthy(j.overall_complete) /\ agreed
               THEN ConfirmationRequest(stored, e.value, j.field_scores, calls)
               ELSE NextQuestion(stored, questions_schema, e.value,
                                 j.field_scores, j.suggestions, calls, ge)

\* Mutant: the next question is generated before the verdict is looked at,
\* also in a turn that ends with the summary.
ExtractionOutcomeAsksAlways(session, questions_schema, ex, ju, ge) ==
    LET history == ExtractionInput(session.conversation_history)
        e == extract_data_from_conversation(history, questions_schema, ex)
        j == judge_completeness(e.value, questions_schema, ju)
        calls == <<ExtractCall(history, questions_schema, e),
                   JudgeCall(e.value, questions_schema, j)>>
    IN IF j.raised THEN Aborted(session, "extraction", calls)
       ELSE LET stored == [session EXCEPT !.extracted_data = e.value,
                                          !.field_scores = j.field_scores]
                g == generate_next_question(session.conversation_history,
                                            questions_schema, e.value,
                                            j.field_scores, j.suggestions, ge)
                asked == Append(calls,
                                GenerateCall(session.conversation_history,
                                             questions_schema, e.value,
                                             j.field_scores, j.suggestions, g))
            IN IF Truthy(j.overall_complete)
               THEN ConfirmationRequest(stored, e.value, j.field_scores, asked)
               ELSE NextQuestion(stored, questions_schema, e.value,
                                 j.field_scores, j.suggestions, calls, ge)

\* Extract, judge, store both snapshots, then ask for confirmation or for
\* more.  `session` already holds the user turn of this request; ex, ju and
\* ge are what the backend answers to the Extractor, the Judge and the
\* Question Generator.
ExtractionOutcome(session, questions_schema, ex, ju, ge) ==
    LET history == ExtractionInput(session.conversation_history)
        e == extract_data_from_conversation(history, questions_schema, ex)
        j == judge_completeness(e.value, questions_schema, ju)
        calls == <<ExtractCall(history, questions_schema, e),
                   JudgeCall(e.value, questions_schema, j)>>
    IN IF j.raised THEN Aborted(session, "extraction", calls)
       ELSE LET stored == [session EXCEPT !.extracted_data = e.value,
                                          !.field_scores = j.field_scores]
            IN IF Truthy(j.overall_complete)
               THEN ConfirmationRequest(stored, e.value, j.field_scores, calls)
               ELSE NextQuestion(stored, questions_schema, e.value,
                                 j.field_scores, j.suggestions, calls, ge)

\* The extraction branch under every answer of the backend.
ExtractionBranch(session, questions_schema) ==
    { ExtractionOutcome(session, questions_schema, ex, ju, ge) :
        ex \in openrouter.extractor, ju \in openrouter.judge,
        ge \in openrouter.generator }

\* Mutant: the reject vocabulary is tried before the confirm vocabulary.
chat_reject_first(session, questions_schema, message) ==
    IF session.is_completed THEN {TerminalBranch(session)}
    ELSE LET s == AppendUser(session, message)
         IN IF s.awaiting_confirmation /\ IsReject(message)
            THEN {RejectBranch(s)}
            ELSE IF s.awaiting_confirmation /\ IsConfirm(message)
            THEN {ConfirmBranch(s)}
            ELSE IF IsFirstInteraction(s.conversation_history)
            THEN {BootstrapBranch(s, message)}
            ELSE ExtractionBranch(s, questions_schema)

\* The handler from the loaded row on: the set of its possible outcomes (one
\* outcome, except where the backend is asked).
chat_with_session(session, questions_schema, message) ==
    IF session.is_completed THEN {TerminalBranch(session)}
    ELSE LET s == AppendUser(session, message)
         IN IF s.awaiting_confirmation /\ IsConfirm(message)
            THEN {ConfirmBranch(s)}
            ELSE IF s.awaiting_confirmation /\ IsReject(message)
            THEN {RejectBranch(s)}
            ELSE IF IsFirstInteraction(s.conversation_history)
            THEN {BootstrapBranch(s, message)}
            ELSE ExtractionBranch(s, questions_schema)

(***************************************************************************)
(* The requests.                                                           *)
(***************************************************************************)
SessionIds == 1..Len(sessions)

TemplateIds == 1..Len(templates)

NoCall ==
    [op |-> "none", session_id |-> 0, message |-> "", branch |-> "none",
     llm |-> <<>>, status |-> 0, body |-> NoBody]

\* No helper is invoked on its own while requests are served.
NoUnit == [fn |-> "none", done |-> TRUE]

\* The tables after an administrator created one template.
Init ==
    /\ templates = << [questions_schema |-> SampleSchema, is_active |-> TRUE] >>
    /\ sessions = <<>>
    /\ call = NoCall
    /\ openrouter = SampleBackend
    /\ unit = NoUnit
    /\ started = <<>>
    /\ inflight = {}

\* POST /api/interview/start/{template_id} on an active template.  The life
\* of one session is followed: a session is started while the table is empty.
StartInterview(template_id) ==
    /\ sessions = <<>>
    /\ template_id \in TemplateIds
    /\ templates[template_id].is_active
    /\ sessions' = Append(sessions, NewSession(template_id))
    /\ call' = [NoCall EXCEPT !.op = "start", !.session_id = Len(sessions'),
                              !.branch = "start", !.status = 200]
    /\ started' = Append(started, templates[template_id].questions_schema)
    /\ UNCHANGED <<templates, openrouter, unit, inflight>>

\* Mutant: the chat request stores its result in every session of the
\* same template.
ChatOfTemplate(session_id, message) ==
    /\ session_id \in SessionIds
    /\ \E r \in chat_with_session(
                    sessions[session_id],
                    templates[sessions[session_id].template_id].questions_schema,
                    message) :
          /\ sessions' = IF r.committed
                         THEN [id \in SessionIds |->
                                  IF sessions[id].template_id =
                                         sessions[session_id].template_id
                                  THEN r.session ELSE sessions[id]]
                         ELSE sessions
          /\ call' = [op |-> "chat", session_id |-> session_id,
                      message |-> message, branch |-> r.branch, llm |-> r.llm,
                      status |-> r.status, body |-> r.body]
    /\ UNCHANGED <<templates, openrouter, unit, started, inflight>>

\* POST /api/interview/session/{session_id}/chat on an existing session.
Chat(session_id, message) ==
    /\ session_id \in SessionIds
    /\ \/ sessions[session_id].is_completed
       \/ Len(sessions[session_id].conversation_history) + 2 <= MaxTurns
    /\ \E r \in chat_with_session(
                    sessions[session_id],
                    templates[sessions[session_id].template_id].questions_schema,
                    message) :
          /\ sessions' = IF r.committed
                         THEN [sessions EXCEPT ![session_id] = r.session]
                         ELSE sessions
          /\ call' = [op |-> "chat", session_id |-> session_id,
                      message |-> message, branch |-> r.branch, llm |-> r.llm,
                      status |-> r.status, body |-> r.body]
    /\ UNCHANGED <<templates, openrouter, unit, started, inflight>>

\* Mutant: the percentage is cut off instead of rounded.
PercentTruncated(n, d) == (n * 100) \div d

\* round(n / d * 100) for d > 0: Python rounds a tie to the even integer.
RoundPercent(n, d) ==
    LET q == (n * 100) \div d
        r == (n * 100) % d
    IN IF 2 * r < d THEN q
       ELSE IF 2 * r > d THEN q + 1
       ELSE IF q % 2 = 0 THEN q ELSE q + 1

\* The dict get_session_status returns.
get_session_status(session_id, session, questions_schema) ==
    LET total_questions == Len(questions_schema)
    IN [session_id |-> session_id,
        current_question |-> session.current_question_index + 1,
        total_questions |-> total_questions,
        is_completed |-> session.is_completed,
        progress_percentage |->
            IF total_questions > 0
            THEN RoundPercent(session.current_question_index, total_questions)
            ELSE 0]

\* GET /api/interview/session/{session_id}/status on an existing session.
GetStatus(session_id) ==
    /\ session_id \in SessionIds
    /\ call' = [NoCall EXCEPT
                   !.op = "status", !.session_id = session_id,
                   !.branch = "status", !.status = 200,
                   !.body = get_session_status(
                                session_id, sessions[session_id],
                                templates[sessions[session_id].template_id]
                                    .questions_schema)]
    /\ UNCHANGED <<templates, sessions, openrouter, unit, started, inflight>>

\* GET /api/interview/session/{session_id} on an existing session: the row.
GetSession(session_id) ==
    /\ session_id \in SessionIds
    /\ call' = [NoCall EXCEPT
                   !.op = "get", !.session_id = session_id,
                   !.branch = "get", !.status = 200,
                   !.body = sessions[session_id]]
    /\ UNCHANGED <<templates, sessions, openrouter, unit, started, inflight>>

Next ==
    \/ \E template_id \in TemplateIds : StartInterview(template_id)
    \/ \E session_id \in SessionIds, message \in Messages :
          Chat(session_id, message)
    \/ \E session_id \in SessionIds : GetStatus(session_id)
    \/ \E session_id \in SessionIds : GetSession(session_id)

Spec == Init /\ [][Next]_vars

(***************************************************************************)
(* The same requests against other backends.                               *)
(***************************************************************************)
\* A backend that is down: every request of every helper fails.
BackendDown ==
    [extractor |-> {BackendFail}, judge |-> {BackendFail},
     generator |-> {BackendFail}]

InitBackendDown ==
    /\ templates = << [questions_schema |-> SampleSchema, is_active |-> TRUE] >>
    /\ sessions = <<>>
    /\ call = NoCall
    /\ openrouter = BackendDown
    /\ unit = NoUnit
    /\ started = <<>>
    /\ inflight = {}

SpecBackendDown == InitBackendDown /\ [][Next]_vars

\* Judge answers that parse as a JSON object, whatever they hold: a verdict
\* that disagrees with the scores, no scores at all, scores that are a list,
\* scores out of range or for a field the schema does not have.
JudgeVerdicts ==
    { BackendJson(JDict(<< <<"field_scores",
                             JDict(<< <<"name", JInt(9)>>,
                                      <<"key_details", JInt(3)>> >>)>>,
                           <<"overall_complete", JBool(TRUE)>>,
                           <<"suggestions", JStr("")>> >>)),
      BackendJson(JDict(<< <<"overall_complete", JBool(TRUE)>> >>)),
      BackendJson(JDict(<< <<"field_scores",
                             JDict(<< <<"name", JInt(9)>>,
                                      <<"key_details", JInt(8)>> >>)>>,
                           <<"overall_complete", JBool(FALSE)>>,
                           <<"suggestions", JStr("")>> >>)),
      BackendJson(JDict(<< <<"field_scores", JList(<<JInt(9), JInt(8)>>)>>,
                           <<"overall_complete", JBool(TRUE)>>,
                           <<"suggestions", JStr("")>> >>)),
      BackendJson(JDict(<< <<"field_scores",
                             JDict(<< <<"name", JInt(11)>>,
                                      <<"mood", JStr("high")>> >>)>>,
                           <<"overall_complete", JBool(FALSE)>>,
                           <<"suggestions", JStr("Ask for details.")>> >>)) }

VerdictBackend ==
    [extractor |->
        { BackendJson(JDict(<< <<"name", JStr("John Smith")>>,
                               <<"key_details", JNull>> >>)) },
     judge |-> JudgeVerdicts,
     generator |-> GeneratorBackend]

InitVerdicts ==
    /\ templates = << [questions_schema |-> SampleSchema, is_active |-> TRUE] >>
    /\ sessions = <<>>
    /\ call = NoCall
    /\ openrouter = VerdictBackend
    /\ unit = NoUnit
    /\ started = <<>>
    /\ inflight = {}

SpecVerdicts == InitVerdicts /\ [][Next]_vars

(***************************************************************************)
(* The helpers of llm_service.py invoked on their own, as                  *)
(* tests/unit/test_llm_service.py does: the arguments and the answer of    *)
(* the mocked backend are fixed before the call.                           *)
(***************************************************************************)
\* The longest conversation handed to a helper.
MaxHistory == 8

\* A conversation of n turns, each with its own text.
History(n) ==
    [i \in 1..n |->
        Turn(IF i % 2 = 1 THEN "user" ELSE "assistant",
             "turn " \o ToString(i))]

UnitHistories == { History(n) : n \in 0..MaxHistory }

UnitSchemas == { <<>>, <<SampleSchema[2]>>, SampleSchema }

\* Extracted mappings handed to the Judge and the Question Generator.
UnitExtracted ==
    { EmptyDict,
      JDict(<< <<"name", JStr("John Smith")>>, <<"key_details", JNull>> >>),
      JDict(<< <<"name", JStr("")>>, <<"key_details", JStr("5 years")>> >>),
      JDict(<< <<"name", JStr("John Smith")>> >>),
      JDict(<< <<"name", JStr("John Smith")>>,
               <<"key_details", JStr("5 years")>>,
               <<"mood", JStr("fine")>> >>) }

UnitScores ==
    { EmptyDict,
      JDict(<< <<"name", JInt(9)>>, <<"key_details", JInt(2)>> >>) }

UnitSuggestions == { "", "Ask for details." }

\* What the mocked backend answers to the Extractor: besides the answers of
\* the interview runs, an object without a schema key and with a key the
\* schema does not have, a JSON string and null.
UnitExtractorAnswers ==
    ExtractorBackend \cup
    { BackendJson(JDict(<< <<"name", JStr("John Smith")>>,
                           <<"mood", JStr("fine")>> >>)),
      BackendJson(JStr("John Smith")),
      BackendJson(JNull) }

\* What the mocked backend answers to the Judge: besides the answers of the
\* interview runs, payloads that are no object and objects without the
\* expected keys.
UnitJudgeAnswers ==
    JudgeBackend \cup
    { BackendJson(JList(<<>>)),
      BackendJson(JStr("complete")),
      BackendJson(JNull),
      BackendJson(EmptyDict),
      BackendJson(JDict(<< <<"overall_complete", JBool(TRUE)>> >>)) }

UnitAnswers ==
    { "yes", "Yes", "NO", " yes", "no\n", "maybe", "yes please", "",
      "123456789", "1234567890", " 12345678 ", "  1234567890  " }

UnitFieldTypes == { "yes/no", "string", "story" }

UnitEvaluatorAnswers ==
    { BackendFail, BackendText("SUFFICIENT"),
      BackendText("INSUFFICIENT: Say more. "), BackendText("INSUFFICIENT"),
      BackendText("INSUFFICIENT: "), BackendText("Looks fine.") }

\* The largest current_question_index and the most schema fields handed
\* to get_session_status.
MaxIndex == 8

\* A schema of n fields.
Fields(n) ==
    [i \in 1..n |->
        [name |-> "field_" \o ToString(i), prompt |-> "Tell me more.",
         type |-> "string"]]

\* Session rows at any index, completed or not.
UnitSessions ==
    { [NewSession(1) EXCEPT !.current_question_index = i, !.is_completed = c] :
        i \in 0..MaxIndex, c \in BOOLEAN }

\* mock: every request of the backend ends in the one outcome a.
Mocked(a) ==
    [extractor |-> {a}, judge |-> {a}, generator |-> {a}, evaluator |-> {a}]

Pending(fn, args) == [fn |-> fn, args |-> args, done |-> FALSE]

UnitCalls ==
    { Pending("extract_data_from_conversation",
              [conversation_history |-> h, questions_schema |-> q,
               backend |-> a]) :
        h \in {History(0), History(3)}, q \in UnitSchemas,
        a \in UnitExtractorAnswers }
    \cup
    { Pending("judge_completeness",
              [extracted_data |-> e, questions_schema |-> q, backend |-> a]) :
        e \in UnitExtracted, q \in UnitSchemas, a \in UnitJudgeAnswers }
    \cup
    { Pending("generate_next_question",
              [conversation_history |-> h, questions_schema |-> q,
               extracted_data |-> e, field_scores |-> f, suggestions |-> g,
               backend |-> a]) :
        h \in UnitHistories, q \in {<<>>, SampleSchema},
        e \in {EmptyDict}, f \in UnitScores, g \in UnitSuggestions,
        a \in GeneratorBackend }
    \cup
    { Pending("evaluate_response",
              [question |-> "What is your name?", answer |-> w,
               field_type |-> t, backend |-> a]) :
        w \in UnitAnswers, t \in UnitFieldTypes, a \in UnitEvaluatorAnswers }
    \cup
    \* the status endpoint asks no helper: the backend is mocked all the same
    { Pending("get_session_status",
              [session_id |-> 1, session |-> s, questions_schema |-> Fields(n),
               backend |-> BackendFail]) :
        s \in UnitSessions, n \in 0..MaxIndex }

InitUnit ==
    /\ templates = <<>>
    /\ sessions = <<>>
    /\ call = NoCall
    /\ unit \in UnitCalls
    /\ openrouter = Mocked(unit.args.backend)
    /\ started = <<>>
    /\ inflight = {}

Finish(result) ==
    /\ unit' = [fn |-> unit.fn, args |-> unit.args, done |-> TRUE,
                result |-> result]
    /\ UNCHANGED <<templates, sessions, call, openrouter, started, inflight>>

CallExtract ==
    /\ unit.fn = "extract_data_from_conversation"
    /\ ~unit.done
    /\ \E a \in openrouter.extractor :
          Finish(extract_data_from_conversation(
                     unit.args.conversation_history,
                     unit.args.questions_schema, a))

CallJudge ==
    /\ unit.fn = "judge_completeness"
    /\ ~unit.done
    /\ \E a \in openrouter.judge :
          Finish(judge_completeness(unit.args.extracted_data,
                                    unit.args.questions_schema, a))

CallGenerate ==
    /\ unit.fn = "generate_next_question"
    /\ ~unit.done
    /\ \E a \in openrouter.generator :
          Finish(generate_next_question(
                     unit.args.conversation_history,
                     unit.args.questions_schema, unit.args.extracted_data,
                     unit.args.field_scores, unit.args.suggestions, a))

CallEvaluate ==
    /\ unit.fn = "evaluate_response"
    /\ ~unit.done
    /\ \E a \in openrouter.evaluator :
          Finish(evaluate_response(unit.args.question, unit.args.answer,
                                   unit.args.field_type, a))

\* get_session_status on a row and the schema of its template; it asks no
\* helper.
CallStatus ==
    /\ unit.fn = "get_session_status"
    /\ ~unit.done
    /\ Finish(get_session_status(unit.args.session_id, unit.args.session,
                                 unit.args.questions_schema))

NextUnit ==
    CallExtract \/ CallJudge \/ CallGenerate \/ CallEvaluate \/ CallStatus

SpecUnit == InitUnit /\ [][NextUnit]_vars

(***************************************************************************)
(* Several sessions next to the administrator's requests                   *)
(* (routes/admin.py): templates are updated and deleted under the sessions *)
(* that were started from them.                                            *)
(***************************************************************************)
\* The most sessions started in a run.
MaxSessions == 2

\* The turns all stored conversations may hold together.
MaxStoredTurns == 6

\* A second schema, the one of test_complete_interview_workflow.
OtherSchema ==
    << [name |-> "name", prompt |-> "What is your name?", type |-> "string"],
       [name |-> "experience", prompt |-> "Tell me about your experience.",
        type |-> "story"] >>

\* The schemas an administrator stores.
AdminSchemas == {SampleSchema, OtherSchema}

\* InterviewTemplateUpdate as update_template sees it through
\* dict(exclude_unset=True): only the fields the request set.
TemplateUpdates ==
    { [questions_schema |-> s] : s \in AdminSchemas } \cup {[is_active |-> TRUE]}

\* The backend of these runs: the Extractor finds the name only; the Judge
\* says "complete" or fails (the fallback then scores the fields of the
\* schema it was handed); the Generator fails.
AdminBackend ==
    [extractor |->
        { BackendJson(JDict(<< <<"name", JStr("John Smith")>>,
                               <<"key_details", JNull>> >>)) },
     judge |->
        { BackendFail,
          BackendJson(JDict(<< <<"field_scores",
                                 JDict(<< <<"name", JInt(9)>> >>)>>,
                               <<"overall_complete", JBool(TRUE)>>,
                               <<"suggestions", JStr("")>> >>)) },
     generator |-> {BackendFail}]

AdminMessages == {"yes", "norway"}

InitAdmin ==
    /\ templates = << [questions_schema |-> SampleSchema, is_active |-> TRUE] >>
    /\ sessions = <<>>
    /\ call = NoCall
    /\ openrouter = AdminBackend
    /\ unit = NoUnit
    /\ started = <<>>
    /\ inflight = {}

\* A request that names a template: the template id is part of its record.
TemplateCall(op, template_id, session_id, status, body) ==
    [op |-> op, template_id |-> template_id, session_id |-> session_id,
     message |-> "", branch |-> op, llm |-> <<>>, status |-> status,
     body |-> body]

\* HTTPException(status_code=404, detail="Template not found")
TemplateNotFound == [detail |-> "Template not found"]

\* Mutant: the template is looked up by id alone.
AnyTemplate(template_id) == template_id \in TemplateIds

\* db.query(InterviewTemplate).filter(id == template_id,
\*                                    is_active == True).first()
ActiveTemplate(template_id) ==
    template_id \in TemplateIds /\ templates[template_id].is_active

\* POST /api/interview/start/{template_id} with any id: 404 unless the
\* template exists and is active, else a new row and the row as the reply.
start_interview(template_id) ==
    /\ ActiveTemplate(template_id) => Len(sessions) < MaxSessions
    /\ IF ActiveTemplate(template_id)
       THEN /\ sessions' = Append(sessions, NewSession(template_id))
            /\ started' = Append(started, templates[template_id].questions_schema)
            /\ call' = TemplateCall("start", template_id, Len(sessions'), 200,
                                    NewSession(template_id))
       ELSE /\ call' = TemplateCall("start", template_id, 0, 404,
                                    TemplateNotFound)
            /\ UNCHANGED <<sessions, started, inflight>>
    /\ UNCHANGED <<templates, openrouter, unit, inflight>>

\* for field, value in template.dict(exclude_unset=True).items():
\*     setattr(db_template, field, value)
SetFields(row, update) ==
    [f \in DOMAIN row |-> IF f \in DOMAIN update THEN update[f] ELSE row[f]]

\* PUT /api/admin/templates/{template_id}: the template is looked up by id
\* alone, whether or not it is active or has sessions.
update_template(template_id, update) ==
    /\ IF template_id \in TemplateIds
       THEN /\ templates' = [templates EXCEPT
                                ![template_id] = SetFields(@, update)]
            /\ call' = TemplateCall("update_template", template_id, 0, 200,
                                    templates'[template_id])
       ELSE /\ call' = TemplateCall("update_template", template_id, 0, 404,
                                    TemplateNotFound)
            /\ UNCHANGED templates
    /\ UNCHANGED <<sessions, openrouter, unit, started, inflight>>

\* DELETE /api/admin/templates/{template_id}: db_template.is_active = False.
delete_template(template_id) ==
    /\ IF template_id \in TemplateIds
       THEN /\ templates' = [templates EXCEPT ![template_id].is_active = FALSE]
            /\ call' = TemplateCall("delete_template", template_id, 0, 200,
                                    [message |-> "Template deleted successfully"])
       ELSE /\ call' = TemplateCall("delete_template", template_id, 0, 404,
                                    TemplateNotFound)
            /\ UNCHANGED templates
    /\ UNCHANGED <<sessions, openrouter, unit, started, inflight>>

\* The turns of all stored conversations.
RECURSIVE StoredTurns(_)
StoredTurns(n) ==
    IF n = 0 THEN 0
    ELSE Len(sessions[n].conversation_history) + StoredTurns(n - 1)

\* The ids a request may name: those of the table and one that is missing.
RequestedTemplateIds == 1..(Len(templates) + 1)

NextAdmin ==
    \/ \E template_id \in RequestedTemplateIds : start_interview(template_id)
    \/ \E session_id \in SessionIds, message \in AdminMessages :
          /\ \/ sessions[session_id].is_completed
             \/ StoredTurns(Len(sessions)) + 2 <= MaxStoredTurns
          /\ Chat(session_id, message)
    \/ \E session_id \in SessionIds : GetStatus(session_id)
    \/ \E session_id \in SessionIds : GetSession(session_id)
    \/ \E template_id \in RequestedTemplateIds, update \in TemplateUpdates :
          update_template(template_id, update)
    \/ \E template_id \in RequestedTemplateIds : delete_template(template_id)

SpecAdmin == InitAdmin /\ [][NextAdmin]_vars

(***************************************************************************)
(* The same requests with the commit as the ORM performs it.  models.py    *)
(* declares conversation_history as a plain Column(JSON): the unit of work *)
(* writes the attributes that were assigned during the request, and a list *)
(* that was changed in place by append() is not among them.                *)
(***************************************************************************)
\* The row after db.commit(): every attribute the handler assigned, and the
\* conversation as it was loaded.
Flushed(loaded, session) ==
    [session EXCEPT !.conversation_history = loaded.conversation_history]

\* POST /api/interview/session/{session_id}/chat, the commit writing what
\* the unit of work tracked.
ChatFlushed(session_id, message) ==
    /\ session_id \in SessionIds
    /\ \/ sessions[session_id].is_completed
       \/ Len(sessions[session_id].conversation_history) + 2 <= MaxTurns
    /\ \E r \in chat_with_session(
                    sessions[session_id],
                    templates[sessions[session_id].template_id].questions_schema,
                    message) :
          /\ sessions' = IF r.committed
                         THEN [sessions EXCEPT
                                  ![session_id] = Flushed(@, r.session)]
                         ELSE sessions
          /\ call' = [op |-> "chat", session_id |-> session_id,
                      message |-> message, branch |-> r.branch, llm |-> r.llm,
                      status |-> r.status, body |-> r.body]
    /\ UNCHANGED <<templates, openrouter, unit, started, inflight>>

NextOrm ==
    \/ \E template_id \in RequestedTemplateIds : start_interview(template_id)
    \/ \E session_id \in SessionIds, message \in AdminMessages :
          ChatFlushed(session_id, message)
    \/ \E session_id \in SessionIds : GetStatus(session_id)
    \/ \E session_id \in SessionIds : GetSession(session_id)
    \/ \E template_id \in RequestedTemplateIds, update \in TemplateUpdates :
          update_template(template_id, update)
    \/ \E template_id \in RequestedTemplateIds : delete_template(template_id)

SpecOrm == InitAdmin /\ [][NextOrm]_vars

(***************************************************************************)
(* The template table on its own: templates are created, deleted, listed   *)
(* and read, and sessions are started from them (routes/admin.py and the   *)
(* first two endpoints of routes/interview.py).                            *)
(***************************************************************************)
\* The most templates created in a run.
MaxTemplates == 3

InitTemplates ==
    /\ templates = <<>>
    /\ sessions = <<>>
    /\ call = NoCall
    /\ openrouter = AdminBackend
    /\ unit = NoUnit
    /\ started = <<>>
    /\ inflight = {}

\* POST /api/admin/templates: InterviewTemplateCreate has no is_active
\* field, the column defaults to True.
create_template(questions_schema) ==
    /\ Len(templates) < MaxTemplates
    /\ templates' = Append(templates, [questions_schema |-> questions_schema,
                                       is_active |-> TRUE])
    /\ call' = TemplateCall("create_template", Len(templates'), 0, 200,
                            templates'[Len(templates')])
    /\ UNCHANGED <<sessions, openrouter, unit, started, inflight>>

\* A template row as a list or read request returns it.
TemplateResponse(template_id) ==
    [id |-> template_id,
     questions_schema |-> templates[template_id].questions_schema,
     is_active |-> templates[template_id].is_active]

\* Mutant: the list is not filtered.
AllRows == { TemplateResponse(t) : t \in TemplateIds }

\* db.query(InterviewTemplate).filter(is_active == True).all(); the order
\* of the rows is the database's.
ActiveRows ==
    { TemplateResponse(t) : t \in { u \in TemplateIds : templates[u].is_active } }

\* GET /api/admin/templates
get_templates ==
    /\ call' = TemplateCall("get_templates", 0, 0, 200, ActiveRows)
    /\ UNCHANGED <<templates, sessions, openrouter, unit, started, inflight>>

\* GET /api/interview/templates
get_available_templates ==
    /\ call' = TemplateCall("get_available_templates", 0, 0, 200, ActiveRows)
    /\ UNCHANGED <<templates, sessions, openrouter, unit, started, inflight>>

\* GET /api/admin/templates/{template_id}: looked up by id alone.
get_template(template_id) ==
    /\ call' = IF template_id \in TemplateIds
               THEN TemplateCall("get_template", template_id, 0, 200,
                                 TemplateResponse(template_id))
               ELSE TemplateCall("get_template", template_id, 0, 404,
                                 TemplateNotFound)
    /\ UNCHANGED <<templates, sessions, openrouter, unit, started, inflight>>

NextTemplates ==
    \/ \E questions_schema \in AdminSchemas : create_template(questions_schema)
    \/ \E template_id \in RequestedTemplateIds : delete_template(template_id)
    \/ get_templates
    \/ get_available_templates
    \/ \E template_id \in RequestedTemplateIds : get_template(template_id)
    \/ \E template_id \in RequestedTemplateIds : start_interview(template_id)

SpecTemplates == InitTemplates /\ [][NextTemplates]_vars

(***************************************************************************)
(* Overlapping chat requests.  chat_with_session loads the session row,    *)
(* runs its branch on the loaded object and commits; nothing orders two    *)
(* requests on the same session, so a second request may load the row      *)
(* between the load and the commit of the first.  The requests in flight   *)
(* form a set: two requests with the same message that loaded the same row *)
(* and got the same answers from the backend store the same row.           *)
(***************************************************************************)
MaxInflight == 2

OverlapMessages == {"yes", "hmm"}

\* POST /api/interview/session/{session_id}/chat up to its db.commit(): the
\* row and the template are loaded and the branch runs on them.
ChatLoad(session_id, message) ==
    /\ session_id \in SessionIds
    /\ Cardinality(inflight) < MaxInflight
    /\ \/ sessions[session_id].is_completed
       \/ Len(sessions[session_id].conversation_history) + 2 <= MaxStoredTurns
    /\ \E r \in chat_with_session(
                    sessions[session_id],
                    templates[sessions[session_id].template_id].questions_schema,
                    message) :
          inflight' = inflight \cup
                         { [session_id |-> session_id, message |-> message,
                            read |-> sessions[session_id], r |-> r] }
    /\ UNCHANGED <<templates, sessions, call, openrouter, unit, started>>

\* Mutant: the commit is dropped when the stored row is completed.
ChatCommitUnlessCompleted(q) ==
    /\ q \in inflight
    /\ sessions' = IF q.r.committed /\ ~sessions[q.session_id].is_completed
                   THEN [sessions EXCEPT ![q.session_id] = q.r.session]
                   ELSE sessions
    /\ call' = [op |-> "chat", session_id |-> q.session_id,
                message |-> q.message, branch |-> q.r.branch,
                llm |-> q.r.llm, status |-> q.r.status, body |-> q.r.body,
                read |-> q.read, replaced |-> sessions[q.session_id]]
    /\ inflight' = inflight \ {q}
    /\ UNCHANGED <<templates, openrouter, unit, started>>

\* The db.commit() and the reply of a request in flight: the object the
\* request worked on replaces the stored row, whatever that row holds by
\* now.  The record of the request keeps the row it loaded and the row it
\* replaced.
ChatCommit(q) ==
    /\ q \in inflight
    /\ sessions' = IF q.r.committed
                   THEN [sessions EXCEPT ![q.session_id] = q.r.session]
                   ELSE sessions
    /\ call' = [op |-> "chat", session_id |-> q.session_id,
                message |-> q.message, branch |-> q.r.branch,
                llm |-> q.r.llm, status |-> q.r.status, body |-> q.r.body,
                read |-> q.read, replaced |-> sessions[q.session_id]]
    /\ inflight' = inflight \ {q}
    /\ UNCHANGED <<templates, openrouter, unit, started>>

NextOverlap ==
    \/ \E template_id \in TemplateIds : StartInterview(template_id)
    \/ \E session_id \in SessionIds, message \in OverlapMessages :
          ChatLoad(session_id, message)
    \/ \E q \in inflight : ChatCommit(q)

SpecOverlap == InitAdmin /\ [][NextOverlap]_vars

(***************************************************************************)
(* Properties.  A step "is a chat request on session id" when the request  *)
(* recorded after the step is a chat on id; `sessions` is the row before   *)
(* the request and `sessions'` the row after it.                           *)
(***************************************************************************)
ChatStepOn(id) ==
    /\ id \in SessionIds
    /\ call'.op = "chat"
    /\ call'.session_id = id

UserTurn(text) == [sender |-> "user", text |-> text]

AssistantTurn(text) == [sender |-> "assistant", text |-> text]

\* C1: a chat request on a completed session answers 200 with the fixed
\* "already been completed" text, is_complete = true and the stored
\* session_data, calls no helper, and leaves the whole row (conversation,
\* extracted_data, field_scores, awaiting_confirmation, session_data)
\* as it was.
C1_CompletedSessionUntouched ==
    [][\A id \in SessionIds :
          (ChatStepOn(id) /\ sessions[id].is_completed) =>
              /\ call'.status = 200
              /\ call'.body.response = "This interview has already been completed."
              /\ call'.body.is_complete = TRUE
              /\ call'.body.session_data = sessions[id].session_data
              /\ call'.llm = <<>>
              /\ sessions'[id] = sessions[id]]_vars

\* C1 witness: a chat request was answered on a completed session that
\* holds a conversation and a non-empty session_data.
C1_Witness ==
    /\ call.op = "chat"
    /\ call.branch = "terminal"
    /\ sessions[call.session_id].is_completed
    /\ sessions[call.session_id].session_data /= EmptyDict
    /\ Len(sessions[call.session_id].conversation_history) = 6

\* C2: a chat request on a non-completed session that awaits confirmation,
\* with a text whose lower-cased form contains a confirm phrase, sets
\* is_completed, copies extracted_data (the empty map if it is null or
\* empty) into session_data, appends the user turn and exactly one fixed
\* acknowledgement turn, replies is_complete = true and calls no helper.
C2_ConfirmCompletes ==
    [][\A id \in SessionIds :
          ( /\ ChatStepOn(id)
            /\ ~sessions[id].is_completed
            /\ sessions[id].awaiting_confirmation
            /\ \E p \in {"yes", "correct", "looks good", "that's right",
                         "confirm", "approve"} :
                  Contains(p, Lower(call'.message)) ) =>
              /\ sessions'[id].is_completed
              /\ sessions'[id].session_data =
                    (IF sessions[id].extracted_data \in {JNull, EmptyDict}
                     THEN EmptyDict ELSE sessions[id].extracted_data)
              /\ sessions'[id].conversation_history =
                    sessions[id].conversation_history \o
                    << UserTurn(call'.message),
                       AssistantTurn("Perfect! Thank you for confirming. Your interview is now complete.") >>
              /\ call'.status = 200
              /\ call'.body.is_complete = TRUE
              /\ call'.llm = <<>>]_vars

\* C2 witness: a confirming reply completed a session whose extracted_data
\* was not empty (the text "incorrect" confirms: it contains "correct").
C2_Witness ==
    /\ call.op = "chat"
    /\ call.branch = "confirm"
    /\ call.message = "incorrect"
    /\ sessions[call.session_id].is_completed
    /\ sessions[call.session_id].session_data /= EmptyDict

\* C3: when a chat request leaves the session completed, session_data is
\* not null and equals the extracted_data the session held when the
\* confirming request started; a request on an already completed session
\* keeps that session_data.
C3_SessionDataIsSnapshot ==
    [][\A id \in SessionIds :
          (ChatStepOn(id) /\ sessions'[id].is_completed) =>
              /\ sessions'[id].session_data /= JNull
              /\ sessions'[id].session_data =
                    (IF sessions[id].is_completed
                     THEN sessions[id].session_data
                     ELSE sessions[id].extracted_data)]_vars

\* C3 witness: a completed session whose session_data is the non-empty
\* extracted_data, after a later chat request was answered on it.
C3_Witness ==
    /\ call.op = "chat"
    /\ call.branch = "terminal"
    /\ sessions[call.session_id].is_completed
    /\ sessions[call.session_id].session_data =
          sessions[call.session_id].extracted_data
    /\ Len(sessions[call.session_id].session_data.items) = 2

\* C4: in every state, a session that awaits confirmation is not completed.
C4_AwaitingImpliesNotCompleted ==
    \A id \in SessionIds :
        sessions[id].awaiting_confirmation => ~sessions[id].is_completed

\* The texts the Question Generator can return in this model.
GeneratedQuestions ==
    {GeneratorFallback} \cup
    {Strip(b.text) : b \in {x \in GeneratorBackend : x.kind = "text"}}

LastTurn(id) ==
    sessions[id].conversation_history[Len(sessions[id].conversation_history)]

\* C5: awaiting_confirmation is never true while the last assistant turn is
\* an ordinary generated question, the opening or welcome message or the
\* "let's continue" message.
C5_AwaitingOnlyAfterSummary ==
    \A id \in SessionIds :
        ( /\ sessions[id].awaiting_confirmation
          /\ sessions[id].conversation_history /= <<>> ) =>
            ~( /\ LastTurn(id).sender = "assistant"
               /\ LastTurn(id).text \in
                     {OpeningMsg, WelcomeMsg, ContinueMsg} \cup GeneratedQuestions )

\* C6: no request (chat, status, get session) turns is_completed from true
\* to false.
C6_CompletedIsMonotone ==
    [][\A id \in SessionIds :
          sessions[id].is_completed =>
              (id \in DOMAIN sessions' /\ sessions'[id].is_completed)]_vars

\* C6 witness: a completed session has served a chat request and then a
\* status request.
C6_Witness ==
    /\ call.op = "status"
    /\ call.body.is_completed
    /\ sessions[call.session_id].is_completed

\* C7: a chat request on a non-completed session that returns a reply
\* appends exactly the user turn with the incoming text and one assistant
\* turn with the reply text, after the turns that were there, in any branch.
C7_TwoTurnsPerReply ==
    [][\A id \in SessionIds :
          (ChatStepOn(id) /\ ~sessions[id].is_completed /\ call'.status = 200) =>
              sessions'[id].conversation_history =
                  sessions[id].conversation_history \o
                  << UserTurn(call'.message),
                     AssistantTurn(call'.body.response) >>]_vars

\* C7 witness: a generated question was appended to a conversation that
\* already held four turns.
C7_Witness ==
    /\ call.op = "chat"
    /\ call.branch = "next_question"
    /\ call.status = 200
    /\ Len(sessions[call.session_id].conversation_history) = 6
    /\ LastTurn(call.session_id).text = "What are the key details?"

\* C8: a chat request on a non-completed session that awaits confirmation,
\* with a text that contains a reject phrase and no confirm phrase, clears
\* awaiting_confirmation, appends the fixed "let's continue" turn, replies
\* is_complete = false, leaves is_completed false and extracted_data,
\* field_scores and session_data as they were, and calls no helper.
C8_RejectContinues ==
    [][\A id \in SessionIds :
          ( /\ ChatStepOn(id)
            /\ ~sessions[id].is_completed
            /\ sessions[id].awaiting_confirmation
            /\ \E p \in {"no", "incorrect", "wrong", "not right", "reject",
                         "change"} : Contains(p, Lower(call'.message))
            /\ ~\E p \in {"yes", "correct", "looks good", "that's right",
                          "confirm", "approve"} :
                   Contains(p, Lower(call'.message)) ) =>
              /\ ~sessions'[id].awaiting_confirmation
              /\ sessions'[id].conversation_history =
                    sessions[id].conversation_history \o
                    << UserTurn(call'.message),
                       AssistantTurn("I understand. Let's continue our conversation to gather more accurate information. What would you like to clarify or add?") >>
              /\ call'.status = 200
              /\ call'.body.is_complete = FALSE
              /\ ~sessions'[id].is_completed
              /\ sessions'[id].extracted_data = sessions[id].extracted_data
              /\ sessions'[id].field_scores = sessions[id].field_scores
              /\ sessions'[id].session_data = sessions[id].session_data
              /\ call'.llm = <<>>]_vars

\* C8 witness: a rejecting reply was processed on a session that held a
\* non-empty extraction snapshot.
C8_Witness ==
    /\ call.op = "chat"
    /\ call.branch = "reject"
    /\ call.message = "norway"
    /\ ~sessions[call.session_id].awaiting_confirmation
    /\ sessions[call.session_id].extracted_data /= EmptyDict
    /\ sessions[call.session_id].field_scores /= EmptyDict

C10_ExtractorSeesSettledHistory ==
    [][\A id \in SessionIds :
          ( /\ ChatStepOn(id)
            /\ call'.branch \in {"extraction", "confirmation_request",
                                 "next_question"} ) =>
              /\ Len(sessions[id].conversation_history) >= 1
              /\ call'.llm[1].fn = "extract_data_from_conversation"
              /\ call'.llm[1].conversation_history =
                    sessions[id].conversation_history]_vars

\* C10 witness: the Extractor was called with four turns while the
\* conversation holds six after the request.
C10_Witness ==
    /\ call.op = "chat"
    /\ call.branch = "confirmation_request"
    /\ Len(call.llm) = 2
    /\ Len(call.llm[1].conversation_history) = 4
    /\ Len(sessions[call.session_id].conversation_history) = 6

\* The judge returned to the request recorded in c, and its verdict was
\* "complete".
JudgeReturned(c) == Len(c.llm) >= 2 /\ ~c.llm[2].returned.raised

JudgedComplete(c) ==
    JudgeReturned(c) /\ c.llm[2].returned.overall_complete = JBool(TRUE)

\* The field names of the sample schema as a reader sees them.
HumanizedKey ==
    [k \in {"name", "key_details"} |->
        IF k = "name" THEN "Name" ELSE "Key Details"]

NonEmptyValue(v) == v \notin {JNull, JStr(""), EmptyDict, JList(<<>>)}

\* C11: in a chat request whose judge verdict is "complete", the session
\* awaits confirmation afterwards, the appended assistant turn is the reply
\* text and lists each extracted field that has a non-empty value as
\* humanized key plus value and names no field whose value is empty or
\* null, the reply is 200 with is_complete = false, awaiting_confirmation =
\* true and the extracted_data and field_scores just stored (the Extractor's
\* and the Judge's results), and is_completed and session_data are as before.
C11_ConfirmationRequest ==
    [][\A id \in SessionIds :
          (ChatStepOn(id) /\ JudgedComplete(call')) =>
              LET history == sessions'[id].conversation_history
                  said == history[Len(history)]
                  items == sessions'[id].extracted_data.items
              IN /\ sessions'[id].awaiting_confirmation
                 /\ said.sender = "assistant"
                 /\ \A i \in 1..Len(items) :
                       IF NonEmptyValue(items[i][2])
                       THEN Contains("**" \o HumanizedKey[items[i][1]]
                                     \o "**: " \o items[i][2].s \o "\n",
                                     said.text)
                       ELSE ~Contains(HumanizedKey[items[i][1]], said.text)
                 /\ call'.status = 200
                 /\ call'.body.response = said.text
                 /\ call'.body.is_complete = FALSE
                 /\ call'.body.awaiting_confirmation = TRUE
                 /\ sessions'[id].extracted_data = call'.llm[1].returned.value
                 /\ call'.body.extracted_data = sessions'[id].extracted_data
                 /\ sessions'[id].field_scores =
                       call'.llm[2].returned.field_scores
                 /\ call'.body.field_scores = sessions'[id].field_scores
                 /\ sessions'[id].is_completed = sessions[id].is_completed
                 /\ sessions'[id].session_data = sessions[id].session_data]_vars

\* C11 witness: the judge said "complete" with scores that are a list; the
\* session awaits confirmation and holds the summary turn, and the request
\* ended in a 500.
C11_Witness ==
    /\ call.op = "chat"
    /\ call.branch = "confirmation_request"
    /\ JudgedComplete(call)
    /\ call.llm[2].returned.field_scores.t = "list"
    /\ call.status = 500
    /\ sessions[call.session_id].awaiting_confirmation
    /\ Contains("**Name**: John Smith", LastTurn(call.session_id).text)

\* The request recorded in c ran the extraction branch: it called the
\* Extractor.
RanExtraction(c) ==
    Len(c.llm) >= 1 /\ c.llm[1].fn = "extract_data_from_conversation"

\* C12: after every chat request that runs the extraction branch,
\* extracted_data is exactly what the Extractor returned in that request
\* (nothing of the previous snapshot is kept; the empty mapping after an
\* Extractor fallback) and field_scores is exactly what the Judge returned.
C12_SnapshotOverwritten ==
    [][\A id \in SessionIds :
          (ChatStepOn(id) /\ RanExtraction(call')) =>
              /\ sessions'[id].extracted_data = call'.llm[1].returned.value
              /\ JudgeReturned(call') =>
                    sessions'[id].field_scores =
                        call'.llm[2].returned.field_scores]_vars

\* C12 witness: the Extractor returned a JSON list, the request ended in a
\* 500 and the session still holds the populated snapshot of the turn
\* before.
C12_Witness ==
    /\ call.op = "chat"
    /\ call.branch = "extraction"
    /\ call.status = 500
    /\ call.llm[1].returned.value = JList(<<>>)
    /\ Len(sessions[call.session_id].extracted_data.items) = 2

\* A Judge payload of the shape the prompt asks for.
WellShapedJudgment(v) ==
    /\ IsDict(v)
    /\ HasKey(v, "field_scores") /\ IsDict(DictGet(v, "field_scores", JNull))
    /\ HasKey(v, "overall_complete")
    /\ DictGet(v, "overall_complete", JNull).t = "bool"
    /\ HasKey(v, "suggestions") /\ DictGet(v, "suggestions", JNull).t = "str"

\* The backend call of the Judge failed: an error, or a payload that is
\* not of that shape.
JudgeCallFailed(a) == a.kind = "fail" \/ ~WellShapedJudgment(a.value)

\* C13: when the backend call of the Judge fails (error or wrongly shaped
\* payload), judge_completeness returns overall_complete = false, the
\* fixed "continue" suggestion, and field_scores with exactly the schema's
\* field names, 5 for a field whose extracted value is non-empty and 0 for
\* a field that is null, empty or missing.
C13_JudgeFallback ==
    ( /\ unit.fn = "judge_completeness"
      /\ unit.done
      /\ JudgeCallFailed(unit.args.backend) ) =>
        LET schema == unit.args.questions_schema
            scores == unit.result.field_scores
        IN /\ ~unit.result.raised
           /\ unit.result.overall_complete = JBool(FALSE)
           /\ unit.result.suggestions =
                 JStr("Unable to evaluate completeness. Please continue the conversation.")
           /\ IsDict(scores)
           /\ Len(scores.items) = Len(schema)
           /\ \A i \in 1..Len(schema) :
                 /\ HasKey(scores, schema[i].name)
                 /\ DictGet(scores, schema[i].name, JNull) =
                       JInt(IF NonEmptyValue(DictGet(unit.args.extracted_data,
                                                     schema[i].name, JNull))
                            THEN 5 ELSE 0)

\* C13 witness: the Judge was answered an object that holds nothing but
\* "overall_complete": true and returned the verdict "complete" with no
\* scores.
C13_Witness ==
    /\ unit.fn = "judge_completeness"
    /\ unit.done
    /\ unit.args.backend =
          BackendJson(JDict(<< <<"overall_complete", JBool(TRUE)>> >>))
    /\ unit.args.questions_schema = SampleSchema
    /\ unit.result.overall_complete = JBool(TRUE)
    /\ unit.result.field_scores = EmptyDict

\* C14: while every request to the backend fails, no session started by
\* start_interview ever awaits confirmation or is completed, whatever the
\* user writes.
C14_BackendDownNeverCompletes ==
    ( /\ openrouter.extractor = {[kind |-> "fail"]}
      /\ openrouter.judge = {[kind |-> "fail"]}
      /\ openrouter.generator = {[kind |-> "fail"]} ) =>
        \A id \in SessionIds :
            /\ ~sessions[id].awaiting_confirmation
            /\ ~sessions[id].is_completed

\* C14 witness: with the backend down, the fourth chat request of a
\* session, a confirming text, was answered with the fallback question
\* after all three helpers had been called.
C14_Witness ==
    /\ openrouter.judge = {[kind |-> "fail"]}
    /\ call.op = "chat"
    /\ call.message = "Yes, that's right!"
    /\ call.status = 200
    /\ Len(call.llm) = 3
    /\ call.body.response = "Could you tell me more about your experience?"
    /\ Len(sessions[call.session_id].conversation_history) = 8
    /\ sessions[call.session_id].field_scores =
          JDict(<< <<"name", JInt(0)>>, <<"key_details", JInt(0)>> >>)

\* C15: whatever the backend answers to the helpers, a chat request on a
\* non-completed session raises no exception: it is answered 200 and the
\* conversation grows by the user turn and the assistant turn of the reply.
C15_BackendNeverBreaksChat ==
    [][\A id \in SessionIds :
          (ChatStepOn(id) /\ ~sessions[id].is_completed) =>
              /\ call'.status = 200
              /\ sessions'[id].conversation_history =
                    sessions[id].conversation_history \o
                    << UserTurn(call'.message),
                       AssistantTurn(call'.body.response) >>]_vars

\* C15 witness: the second chat request of a session ended in a 500 because
\* judge_completeness raised on the Extractor's result; the conversation
\* still holds the two turns of the first request only.
C15_Witness ==
    /\ call.op = "chat"
    /\ call.status = 500
    /\ Len(call.llm) = 2
    /\ ~call.llm[1].returned.raised
    /\ call.llm[2].returned.raised
    /\ Len(sessions[call.session_id].conversation_history) = 2

\* C16: in a chat request in which the Judge returned, the session is put
\* into awaiting_confirmation, with no question generated, exactly when the
\* returned overall_complete is true, whatever the returned field_scores
\* are; when it is not true, awaiting_confirmation is left as it was and
\* the Question Generator is called.
C16_VerdictVerbatim ==
    [][\A id \in SessionIds :
          (ChatStepOn(id) /\ JudgeReturned(call')) =>
              IF call'.llm[2].returned.overall_complete = JBool(TRUE)
              THEN /\ sessions'[id].awaiting_confirmation
                   /\ Len(call'.llm) = 2
              ELSE /\ sessions'[id].awaiting_confirmation =
                         sessions[id].awaiting_confirmation
                   /\ Len(call'.llm) = 3
                   /\ call'.body.awaiting_confirmation = FALSE]_vars

\* C16 witness: the Judge returned overall_complete = true with a score of
\* 3 for key_details; the session awaits confirmation and the reply says so.
C16_Witness ==
    /\ call.op = "chat"
    /\ JudgedComplete(call)
    /\ call.llm[2].returned.field_scores =
          JDict(<< <<"name", JInt(9)>>, <<"key_details", JInt(3)>> >>)
    /\ call.status = 200
    /\ call.body.awaiting_confirmation
    /\ sessions[call.session_id].awaiting_confirmation

\* The field names of the schema session id is interviewed against.
SchemaFields(id) ==
    LET schema == templates[sessions[id].template_id].questions_schema
    IN { schema[k].name : k \in 1..Len(schema) }

\* C17: in every state, the field_scores of every session is a mapping
\* whose keys are field names of the session's schema and whose values are
\* integers from 0 to 10.
C17_FieldScoresWellFormed ==
    \A id \in SessionIds :
        LET scores == sessions[id].field_scores
        IN /\ IsDict(scores)
           /\ \A i \in 1..Len(scores.items) :
                 /\ scores.items[i][1] \in SchemaFields(id)
                 /\ scores.items[i][2].t = "int"
                 /\ scores.items[i][2].n \in 0..10

\* C17 witness: a session whose stored field_scores has a score of 11 for
\* name and a text as score of a field the schema does not have, after a
\* request that was answered with the next question.
C17_Witness ==
    /\ call.op = "chat"
    /\ call.status = 200
    /\ Len(call.llm) = 3
    /\ sessions[call.session_id].field_scores =
          JDict(<< <<"name", JInt(11)>>, <<"mood", JStr("high")>> >>)

\* C18: extract_data_from_conversation raises nothing; it returns the empty
\* mapping when its backend call fails or the content is no JSON, and the
\* parsed payload itself otherwise, with the keys the payload has, for
\* every history and schema.
C18_ExtractorFallbackOrPayload ==
    (unit.fn = "extract_data_from_conversation" /\ unit.done) =>
        /\ ~unit.result.raised
        /\ unit.args.backend.kind = "fail" =>
              unit.result.value = [t |-> "dict", items |-> <<>>]
        /\ unit.args.backend.kind = "json" =>
              unit.result.value = unit.args.backend.value

\* C18 witness: against the schema {name, key_details} the Extractor
\* returned a payload that lacks key_details and has the extra key mood.
C18_Witness ==
    /\ unit.fn = "extract_data_from_conversation"
    /\ unit.done
    /\ unit.args.questions_schema = SampleSchema
    /\ Len(unit.args.conversation_history) = 3
    /\ unit.result.value =
          JDict(<< <<"name", JStr("John Smith")>>, <<"mood", JStr("fine")>> >>)

\* C19: generate_next_question raises nothing on a mapping of scores; the
\* conversation part of its prompt is made of the last 6 turns of the
\* history it is given, in order (of all turns when there are fewer), and
\* when its backend call fails it returns "Could you tell me more about
\* your experience?" whatever the history, schema, scores and suggestions.
C19_GeneratorContextAndFallback ==
    (unit.fn = "generate_next_question" /\ unit.done) =>
        LET h == unit.args.conversation_history
            first == IF Len(h) > 6 THEN Len(h) - 5 ELSE 1
        IN /\ ~unit.result.raised
           /\ unit.result.prompt = ConversationText(SubSeq(h, first, Len(h)))
           /\ unit.args.backend.kind = "fail" =>
                 unit.result.value =
                     "Could you tell me more about your experience?"

\* C19 witness: the Question Generator was given eight turns while the
\* backend was failing; its prompt starts at the third turn and it
\* returned the fallback question.
C19_Witness ==
    /\ unit.fn = "generate_next_question"
    /\ unit.done
    /\ Len(unit.args.conversation_history) = 8
    /\ unit.args.backend.kind = "fail"
    /\ unit.args.questions_schema = SampleSchema
    /\ unit.args.suggestions = "Ask for details."
    /\ StartsWith(unit.result.prompt, "user: turn 3\nassistant: turn 4\n")
    /\ unit.result.value = GeneratorFallback

\* C20: when the backend call of evaluate_response fails, a yes/no answer
\* is sufficient exactly when, trimmed and lower-cased, it is "yes" or
\* "no", and is otherwise insufficient with a reason naming 'yes' and
\* 'no'; an answer of any other kind is sufficient exactly when, trimmed,
\* it has at least 10 characters, and is otherwise insufficient with the
\* reason "Please provide a more detailed response.".
C20_FallbackEvaluation ==
    ( /\ unit.fn = "evaluate_response"
      /\ unit.done
      /\ unit.args.backend.kind = "fail" ) =>
        LET answer == unit.args.answer
            r == unit.result
        IN IF unit.args.field_type = "yes/no"
           THEN /\ r.sufficient <=> Strip(Lower(answer)) \in {"yes", "no"}
                /\ ~r.sufficient =>
                      /\ r.reason.t = "str"
                      /\ Contains("'yes'", r.reason.s)
                      /\ Contains("'no'", r.reason.s)
           ELSE /\ r.sufficient <=> Len(Strip(answer)) >= 10
                /\ ~r.sufficient =>
                      r.reason = JStr("Please provide a more detailed response.")

\* C20 witness: with the backend failing, the yes/no answer " yes" was
\* judged insufficient.
C20_Witness ==
    /\ unit.fn = "evaluate_response"
    /\ unit.done
    /\ unit.args.backend.kind = "fail"
    /\ unit.args.field_type = "yes/no"
    /\ unit.args.answer = " yes"
    /\ ~unit.result.sufficient
    /\ unit.result.reason = JStr(YesNoReason)

C24_CompletedReportsFullProgress ==
    (call.op = "status" /\ sessions[call.session_id].is_completed) =>
        /\ call.body.is_completed = TRUE
        /\ call.body.progress_percentage = 100

\* C24 witness: the status of a completed session was served.
C24_Witness ==
    /\ call.op = "status"
    /\ call.status = 200
    /\ sessions[call.session_id].is_completed
    /\ call.body.is_completed = TRUE
    /\ call.body.total_questions = 2

\* C27: vocabulary matching is case-insensitive substring containment.
\* While a session awaits confirmation, the reply "Yes, that's right!"
\* confirms; "norway", which holds no confirm phrase but holds the reject
\* phrase "no" inside a longer word, takes the reject branch; and in
\* general the branch is confirm exactly when the lower-cased reply
\* contains a confirm phrase, reject exactly when it contains no confirm
\* phrase but a reject phrase.
C27_SubstringMatching ==
    [][\A id \in SessionIds :
          ( /\ ChatStepOn(id)
            /\ ~sessions[id].is_completed
            /\ sessions[id].awaiting_confirmation ) =>
              LET m == call'.message
                  confirms ==
                      \E p \in {"yes", "correct", "looks good", "that's right",
                                "confirm", "approve"} : Contains(p, Lower(m))
                  rejects ==
                      \E p \in {"no", "incorrect", "wrong", "not right",
                                "reject", "change"} : Contains(p, Lower(m))
              IN /\ m = "Yes, that's right!" =>
                      (call'.branch = "confirm" /\ sessions'[id].is_completed)
                 /\ m = "norway" =>
                      /\ call'.branch = "reject"
                      /\ ~sessions'[id].awaiting_confirmation
                      /\ ~sessions'[id].is_completed
                 /\ call'.branch = "confirm" <=> confirms
                 /\ call'.branch = "reject" <=> (~confirms /\ rejects)]_vars

\* C27 witness: a session that awaited confirmation (its last stored turn
\* was the summary) was completed by the reply "Yes, that's right!", which
\* differs in case and in length from every confirm phrase.
C27_Witness ==
    /\ call.op = "chat"
    /\ call.branch = "confirm"
    /\ call.message = "Yes, that's right!"
    /\ sessions[call.session_id].is_completed
    /\ LET h == sessions[call.session_id].conversation_history
       IN /\ h[Len(h) - 1] = UserTurn("Yes, that's right!")
          /\ StartsWith(h[Len(h) - 2].text, SummaryIntro)

HelperRaised(c) == \E i \in 1..Len(c.llm) : c.llm[i].returned.raised

C21_StartCreatesOneSession ==
    [][call'.op = "start" =>
          LET t == call'.template_id
          IN IF t \in 1..Len(templates) /\ templates[t].is_active
             THEN /\ call'.status = 200
                  /\ Len(sessions') = Len(sessions) + 1
                  /\ SubSeq(sessions', 1, Len(sessions)) = sessions
                  /\ call'.session_id = Len(sessions')
                  /\ call'.session_id \notin SessionIds
                  /\ sessions'[call'.session_id] =
                        [template_id |-> t,
                         session_data |-> [t |-> "dict", items |-> <<>>],
                         conversation_history |-> <<>>,
                         current_question_index |-> 0,
                         is_completed |-> FALSE,
                         awaiting_confirmation |-> FALSE,
                         extracted_data |-> [t |-> "dict", items |-> <<>>],
                         field_scores |-> [t |-> "dict", items |-> <<>>]]
                  /\ call'.body = sessions'[call'.session_id]
             ELSE /\ call'.status = 404
                  /\ sessions' = sessions]_vars

\* C21 witness: after one session was started and has talked, the template
\* was deleted and a further start request on it was refused with 404.
C21_Witness ==
    /\ call.op = "start"
    /\ call.status = 404
    /\ call.template_id = 1
    /\ ~templates[1].is_active
    /\ Len(sessions) = 1
    /\ Len(sessions[1].conversation_history) = 2

\* C25: sessions are independent.  A chat, status, read or start request
\* that concerns session A leaves every field of every other session B as
\* it was, also when A and B were started from the same template.
C25_SessionsIndependent ==
    [][\A b \in SessionIds :
          ( /\ call'.op \in {"chat", "status", "get", "start"}
            /\ call'.session_id /= b ) =>
              sessions'[b] = sessions[b]]_vars

\* C25 witness: two sessions of the same template; the first was taken to
\* its confirmation request while the second still holds the two turns and
\* the empty snapshot of its own bootstrap.
C25_Witness ==
    /\ Len(sessions) = 2
    /\ sessions[1].template_id = sessions[2].template_id
    /\ call.op = "chat"
    /\ call.session_id = 1
    /\ call.branch = "confirmation_request"
    /\ sessions[1].awaiting_confirmation
    /\ Len(sessions[1].conversation_history) = 4
    /\ sessions[2].conversation_history =
           << UserTurn("norway"), AssistantTurn(WelcomeMsg) >>
    /\ sessions[2].extracted_data = EmptyDict
    /\ ~sessions[2].awaiting_confirmation

\* C29: the schema handed to the Extractor, the Judge and the Generator in
\* a chat request is the schema the session's template had when
\* start_interview created the session, however the administrator's
\* update_template and delete_template requests are interleaved with the
\* chat requests.
C29_SchemaFixedAtStart ==
    [][\A id \in SessionIds :
          ChatStepOn(id) =>
              \A i \in 1..Len(call'.llm) :
                  call'.llm[i].questions_schema = started[id]]_vars

\* C29 witness: a chat request ran the three helpers on a session whose
\* template the administrator had deleted in an earlier request.
C29_Witness ==
    /\ call.op = "chat"
    /\ call.branch = "next_question"
    /\ Len(call.llm) = 3
    /\ ~templates[sessions[call.session_id].template_id].is_active
    /\ call.llm[1].questions_schema = SampleSchema

\* C22: the status reports current_question = index + 1, total_questions =
\* the number of schema fields, and progress_percentage = the integer
\* nearest to index / total_questions * 100 when total_questions > 0 and 0
\* when there are no fields (no division is attempted); for a session as
\* start_interview created it the progress is 0.
C22_StatusFormula ==
    (unit.fn = "get_session_status" /\ unit.done) =>
        LET index == unit.args.session.current_question_index
            total == Len(unit.args.questions_schema)
            r == unit.result
            off == 100 * index - r.progress_percentage * total
        IN /\ r.session_id = unit.args.session_id
           /\ r.current_question = index + 1
           /\ r.total_questions = total
           /\ r.is_completed = unit.args.session.is_completed
           /\ r.progress_percentage \in Int
           /\ total > 0 => (2 * off <= total /\ -2 * off <= total)
           /\ total = 0 => r.progress_percentage = 0
           /\ unit.args.session = NewSession(1) => r.progress_percentage = 0

\* C22 witness: index 2 of 3 fields is reported as question 3 of 3 at 67
\* percent.
C22_Witness ==
    /\ unit.fn = "get_session_status"
    /\ unit.done
    /\ unit.args.session.current_question_index = 2
    /\ Len(unit.args.questions_schema) = 3
    /\ unit.result.current_question = 3
    /\ unit.result.total_questions = 3
    /\ unit.result.progress_percentage = 67

\* C30: the session state survives between requests.  After a chat request
\* on a session that is not completed was answered, the stored row, which
\* is what the next request loads, holds the conversation read plus the
\* user's turn plus the assistant's turn that was sent; and a chat request
\* that follows an answered chat request on the same session finds those
\* turns and does not take the bootstrap branch again.
C30_StateSurvivesRequests ==
    [][\A id \in SessionIds :
          ( /\ ChatStepOn(id)
            /\ ~sessions[id].is_completed
            /\ call'.status = 200 ) =>
              /\ sessions'[id].conversation_history =
                    sessions[id].conversation_history \o
                    << UserTurn(call'.message),
                       AssistantTurn(call'.body.response) >>
              /\ ( /\ call.op = "chat"
                   /\ call.session_id = id
                   /\ call.status = 200 ) => call'.branch /= "bootstrap"]_vars

\* C30 witness: a chat request was answered with the welcome and the row a
\* later request loads holds no turn at all.
C30_Witness ==
    /\ call.op = "chat"
    /\ call.status = 200
    /\ call.branch = "bootstrap"
    /\ call.body.response = WelcomeMsg
    /\ sessions[call.session_id].conversation_history = <<>>

\* C36: while a session awaits confirmation the confirm vocabulary wins
\* over the reject vocabulary.  A reply whose lower-cased text contains a
\* confirm phrase and a reject phrase takes the confirm branch and
\* completes the session; every reply containing "incorrect" is such a
\* reply, because "incorrect" contains "correct".
C36_ConfirmBeforeReject ==
    [][\A id \in SessionIds :
          ( /\ ChatStepOn(id)
            /\ ~sessions[id].is_completed
            /\ sessions[id].awaiting_confirmation ) =>
              LET m == Lower(call'.message)
                  confirms ==
                      \E p \in {"yes", "correct", "looks good", "that's right",
                                "confirm", "approve"} : Contains(p, m)
                  rejects ==
                      \E p \in {"no", "incorrect", "wrong", "not right",
                                "reject", "change"} : Contains(p, m)
              IN /\ (confirms /\ rejects) =>
                      /\ call'.branch = "confirm"
                      /\ sessions'[id].is_completed
                      /\ call'.body.is_complete = TRUE
                 /\ Contains("incorrect", m) =>
                      /\ confirms /\ rejects
                      /\ call'.branch = "confirm"
                      /\ sessions'[id].is_completed]_vars

\* C36 witness: the reply "incorrect" to a summary completed the session
\* with the summarised snapshot as its result.
C36_Witness ==
    /\ call.op = "chat"
    /\ call.message = "incorrect"
    /\ call.branch = "confirm"
    /\ call.body.response = ConfirmationAck
    /\ LET s == sessions[call.session_id]
       IN /\ s.is_completed
          /\ s.session_data = s.extracted_data
          /\ StartsWith(s.conversation_history[Len(s.conversation_history) - 2].text,
                        SummaryIntro)

\* C32: a chat request on a session that awaits confirmation, with a text
\* that contains neither a confirm nor a reject phrase, runs the extraction
\* branch: the Extractor on the stored conversation (without the turn just
\* received), then the Judge.  awaiting_confirmation is still true after
\* the request, both when the Judge says "complete" again (a new summary is
\* appended) and when it does not (a generated question is appended).
C32_AmbiguousReplyKeepsAwaiting ==
    [][\A id \in SessionIds :
          ( /\ ChatStepOn(id)
            /\ ~sessions[id].is_completed
            /\ sessions[id].awaiting_confirmation
            /\ ~\E p \in {"yes", "correct", "looks good", "that's right",
                          "confirm", "approve", "no", "incorrect", "wrong",
                          "not right", "reject", "change"} :
                   Contains(p, Lower(call'.message)) ) =>
              /\ Len(call'.llm) >= 2
              /\ call'.llm[1].fn = "extract_data_from_conversation"
              /\ call'.llm[1].conversation_history =
                     sessions[id].conversation_history
              /\ call'.llm[2].fn = "judge_completeness"
              /\ sessions'[id].awaiting_confirmation
              /\ ~sessions'[id].is_completed
              /\ JudgedComplete(call') =>
                    call'.branch = "confirmation_request"
              /\ (JudgeReturned(call') /\ ~JudgedComplete(call')
                    /\ call'.status = 200) =>
                    /\ call'.branch = "next_question"
                    /\ LastTurn(id)' = AssistantTurn(call'.llm[3].returned.value)]_vars

\* C32 witness: the reply "hmm" to a summary was answered with a generated
\* question and the session still awaits confirmation.
C32_Witness ==
    /\ call.op = "chat"
    /\ call.message = "hmm"
    /\ call.branch = "next_question"
    /\ call.status = 200
    /\ LET s == sessions[call.session_id]
       IN /\ s.awaiting_confirmation
          /\ ~s.is_completed
          /\ Len(s.conversation_history) = 6
          /\ StartsWith(s.conversation_history[4].text, SummaryIntro)
          /\ s.conversation_history[5] = UserTurn("hmm")

\* C33: in one chat request the helpers are called in a fixed order, each
\* at most once: the Extractor first, then the Judge on exactly what the
\* Extractor returned, then the Question Generator only if the Judge
\* returned "not complete", on the whole conversation including the turn
\* received in this request and with the Judge's scores and suggestions.
\* A request whose verdict is "complete" does not call the Question
\* Generator, and no request makes more than three helper calls.
C33_HelperOrder ==
    [][\A id \in SessionIds :
          ChatStepOn(id) =>
              LET llm == call'.llm
              IN /\ Len(llm) \in {0, 2, 3}
                 /\ Len(llm) >= 2 =>
                      /\ llm[1].fn = "extract_data_from_conversation"
                      /\ llm[2].fn = "judge_completeness"
                      /\ llm[2].extracted_data = llm[1].returned.value
                      /\ Len(llm) = 3 <=>
                            ( /\ ~llm[2].returned.raised
                              /\ ~Truthy(llm[2].returned.overall_complete) )
                 /\ Len(llm) = 3 =>
                      /\ llm[3].fn = "generate_next_question"
                      /\ llm[3].conversation_history =
                             Append(sessions[id].conversation_history,
                                    UserTurn(call'.message))
                      /\ llm[3].extracted_data = llm[1].returned.value
                      /\ llm[3].field_scores = llm[2].returned.field_scores
                      /\ llm[3].suggestions = llm[2].returned.suggestions]_vars

\* C33 witness: a request called the Extractor, the Judge (verdict "not
\* complete") and the Question Generator, the last on a conversation that
\* ends with the turn just received.
C33_Witness ==
    /\ call.op = "chat"
    /\ Len(call.llm) = 3
    /\ call.llm[2].returned.overall_complete = JBool(FALSE)
    /\ call.llm[2].extracted_data /= EmptyDict
    /\ Len(call.llm[3].conversation_history) = 5
    /\ call.llm[3].conversation_history[5] = UserTurn(call.message)
    /\ call.llm[3].field_scores = call.llm[2].returned.field_scores

\* C38: evaluate_response returns a pair (sufficient, reason) whose reason
\* is null whenever sufficient is true and a non-empty string whenever
\* sufficient is false, whatever the answer, the kind and the behaviour of
\* the backend.  When the backend answers, a content that starts with
\* "SUFFICIENT" gives (true, null), one that starts with "INSUFFICIENT"
\* gives (false, the text after the first colon, or the fixed default when
\* there is no colon), and any other content gives (true, null).
C38_EvaluationPair ==
    (unit.fn = "evaluate_response" /\ unit.done) =>
        LET r == unit.result
            a == unit.args.backend
        IN /\ r.sufficient \in BOOLEAN
           /\ r.sufficient => r.reason = JNull
           /\ ~r.sufficient => (r.reason.t = "str" /\ r.reason.s /= "")
           /\ a = BackendText("SUFFICIENT") => r.sufficient
           /\ a = BackendText("INSUFFICIENT: Say more. ") =>
                 (~r.sufficient /\ r.reason = JStr("Say more."))
           /\ a = BackendText("INSUFFICIENT") =>
                 (~r.sufficient /\ r.reason = JStr("Please provide more detail."))
           /\ a = BackendText("Looks fine.") => r.sufficient

\* C38 witness: with the backend failing, the yes/no answer "yes" was
\* judged sufficient and came back with a reason all the same.
C38_Witness ==
    /\ unit.fn = "evaluate_response"
    /\ unit.done
    /\ unit.args.backend = BackendFail
    /\ unit.args.field_type = "yes/no"
    /\ unit.args.answer = "yes"
    /\ unit.result.sufficient
    /\ unit.result.reason = JStr("Please answer with 'yes' or 'no'.")

C37_BootstrapOnlyOnce ==
    [][\A id \in SessionIds :
          (ChatStepOn(id) /\ ~sessions[id].is_completed) =>
              /\ (call.op = "start" /\ call.session_id = id) =>
                    call'.branch = "bootstrap"
              /\ (call.op = "chat" /\ call.session_id = id
                    /\ call.status = 200) =>
                    /\ call'.branch \in {"confirm", "reject", "extraction",
                                         "confirmation_request",
                                         "next_question"}
                    /\ call'.body.response \notin
                          {"Hello! Welcome to your interview session. I will ask you questions through a natural conversation. Let me know when you're ready to begin!",
                           "Great! I'll be conducting this interview with you. Let's have a natural conversation, and I'll gather the information we need. Tell me, what brings you here today?"}]_vars

\* C37 witness: the reply "yes" was answered with the opening text and the
\* stored row of the session, which a second session stands next to, still
\* holds no turn.
C37_Witness ==
    /\ call.op = "chat"
    /\ call.message = "yes"
    /\ call.branch = "bootstrap"
    /\ call.body.response = OpeningMsg
    /\ Len(sessions) = 2
    /\ sessions[call.session_id].conversation_history = <<>>
    /\ ~sessions[call.session_id].is_completed

\* C31: deleting a template is a soft delete.  An answered delete request
\* leaves the row in the table with is_active = false and its schema, and
\* changes no other row; a deleted template stays deleted and an active one
\* stays active under create and delete requests on other templates; the
\* administrator's list and the interview list return exactly the active
\* templates; a start request on a deleted template fails with 404 and
\* creates no session, while the read by id still finds the row.
C31_SoftDelete ==
    [][/\ Len(templates') >= Len(templates)
       /\ \A t \in TemplateIds :
            /\ (call'.op = "delete_template" /\ call'.template_id = t) =>
                  /\ call'.status = 200
                  /\ templates'[t] =
                        [questions_schema |-> templates[t].questions_schema,
                         is_active |-> FALSE]
            /\ ~(call'.op = "delete_template" /\ call'.template_id = t) =>
                  templates'[t] = templates[t]
            /\ (call'.op = "start" /\ call'.template_id = t
                  /\ ~templates[t].is_active) =>
                  (call'.status = 404 /\ sessions' = sessions)
            /\ (call'.op = "get_template" /\ call'.template_id = t) =>
                  (call'.status = 200 /\ call'.body.id = t)
       /\ call'.op \in {"get_templates", "get_available_templates"} =>
            /\ call'.status = 200
            /\ \A t \in TemplateIds :
                  (\E row \in call'.body : row.id = t) <=> templates[t].is_active
            /\ \A row \in call'.body :
                  /\ row.id \in TemplateIds
                  /\ row.questions_schema = templates[row.id].questions_schema]_vars

\* C31 witness: of three templates the second was deleted; the
\* administrator's list returns the first and the third.
C31_Witness ==
    /\ call.op = "get_templates"
    /\ Len(templates) = 3
    /\ ~templates[2].is_active
    /\ { row.id : row \in call.body } = {1, 3}

OutcomesOf(c) ==
    { r \in chat_with_session(
                c.read,
                templates[c.read.template_id].questions_schema,
                c.message) : r.branch = c.branch /\ r.llm = c.llm }

====
